---- MODULE Spec2Model ----
(***************************************************************************)
(* Database backup and restore subsystem of Mountain_Made-2.0:             *)
(* src/controllers/backupController.js and                                 *)
(* src/controllers/restoreController.js.                                   *)
(*                                                                         *)
(* A dump file is a sequence of lines.  A line is the record               *)
(* [k, t, n]: k is what the line is (a COPY header, a data row, a          *)
(* terminator, a marker comment, ...), t the table it names and n the      *)
(* number it carries (the marker's N, or the id of the row).  The string   *)
(* tests of the code (startsWith, includes, the marker regex, trim) are    *)
(* the predicates IsCopyStart, IsMarker, IsTerminator and NonEmpty.        *)
(*                                                                         *)
(* The database is the rows (by id) and the id sequence of the three       *)
(* critical tables users, orders and order_items; the other eight tables   *)
(* that runPostRestoreRepair resynchronises are handled by the same code   *)
(* and are not held.  What the environment decides (a query, a file read,  *)
(* pg_dump or psql failing, the rows a concurrent handler writes) is a     *)
(* choice of the action that issues the call.  User.ensureAdmin and        *)
(* User.ensureSuperAdmin (models/User.js) are modelled from spec.md.       *)
(***************************************************************************)
EXTENDS Integers, Sequences, FiniteSets, TLC

\* ---------------------------------------------------------------- bounds
\* Largest number of rows of one table (in the database, in a COPY block).
MaxRows == 1
\* Longest file handed to the scanners in SpecScan and to the transformer
\* in SpecTransform.
MaxLines == 4
\* Largest N a marker carries in SpecScan.
MaxMarker == 2
\* Backup runs that can be in flight at once (slots of `runs`).
MaxRuns == 2
\* Rows of the backups table at which no further backup is started.
MaxBackups == 1
\* Largest number of rows of one table in an uploaded dump.
MaxDumpRows == 2
\* The statements of one restore that fail and are passed over (by psql in
\* its tolerant run, by the fallback for a benign error).
MaxStatementErrors == 1
\* Longest text (in characters) handed to the statement splitter in SpecSplit.
MaxChars == 6
\* Longest bulk-load field or string value handed to the codec in SpecCodec.
MaxField == 4
\* Longest list of rows handed to the upsert block generator in SpecUpsert.
MaxUpsertRows == 2
\* The times the clock is seen to advance in SpecOverlap.
MaxTicks == 1

\* ------------------------------------------------------------- constants
\* The value JavaScript's null takes where a count is expected.
Null == -1

Tables == <<"users", "orders", "order_items">>
TableSet == {"users", "orders", "order_items"}

VARIABLES
    callArg,                \* the argument of the latest call of one of the
                            \* pure functions (splitter, codec, transformer)
    callRes,                \* [fn, out]: that function and what it returned
    clock,                  \* Date.now(): milliseconds since the module was loaded
    scanFile,               \* SpecScan: the file handed to a scanner
    scanRes,                \* SpecScan: [fn, table, out] of the last scan
    isWindows,              \* process.platform === 'win32'
    liveCounts,             \* the row counts a table of the live database can
                            \* show to a query (other handlers write between
                            \* any two queries of a backup)
    runs,                   \* createBackupInternal invocations, by slot
    backups,                \* the backups table (Backup.create appends)
    autoBackupTimer,        \* module variable: the interval timer is set
    isAutoBackupRunning,    \* module variable: the in-flight flag
    lastJob,                \* the latest runJob call: what it did ("started" or
                            \* "skipped") and a bit that every call flips
    rs,                     \* the restoreDatabase call: its position and locals
    db                      \* the live database a restore writes: the ids of the
                            \* rows of each table and each table's id sequence

vars == <<callArg, callRes, clock, scanFile, scanRes, isWindows, liveCounts, runs, backups,
          autoBackupTimer, isAutoBackupRunning, lastJob, rs, db>>

\* ------------------------------------------------------------ dump lines
CopyLine(t) == [k |-> "copy", t |-> t, n |-> 0]
DataLine(id) == [k |-> "data", t |-> "-", n |-> id]
BlankLine == [k |-> "blank", t |-> "-", n |-> 0]
TermLine == [k |-> "term", t |-> "-", n |-> 0]
MarkerLine(t, n) == [k |-> "marker", t |-> t, n |-> n]
CommentLine(t) == [k |-> "comment", t |-> t, n |-> 0]
UpsertLine(t, id) == [k |-> "upsert", t |-> t, n |-> id]
\* A statement of the schema section (CREATE TABLE ...;).
SqlLine == [k |-> "sql", t |-> "-", n |-> 0]
\* ALTER DEFAULT PRIVILEGES ...; or COMMENT ON EXTENSION ...;
InertLine == [k |-> "inert", t |-> "-", n |-> 0]
\* SELECT pg_catalog.setval('public.<t>_id_seq', n, true); as pg_dump writes
\* it after the data (n = 0 stands for setval(..., 1, false)).
SetvalLine(t, n) == [k |-> "setval", t |-> t, n |-> n]
\* INSERT INTO <t> (...) VALUES (...); as transformPlainSqlDump writes it.
InsertLine(t, id) == [k |-> "insert", t |-> t, n |-> id]

\* line.match(markerRegex): ^--\s*APP_<TABLE>_TOTAL\s*:\s*(\d+)\s*$
IsMarker(line, tableName) == line.k = "marker" /\ line.t = tableName
\* line.startsWith(`COPY public.${tableName} `) && line.includes(' FROM stdin;')
IsCopyStart(line, tableName) == line.k = "copy" /\ line.t = tableName
\* line.trim() === '\\.'
IsTerminator(line) == line.k = "term"
\* line.trim().length > 0
NonEmpty(line) == line.k # "blank"

\* --------------------------------------------------------------- scanners
\* backupController.js countTableRowsInSql: the for-await loop, from line i.
RECURSIVE BackupScanLoop(_, _, _, _, _, _)
BackupScanLoop(lines, i, tableName, inCopyBlock, count, markerCount) ==
    IF i > Len(lines)
    THEN [inCopyBlock |-> inCopyBlock, count |-> count, markerCount |-> markerCount]
    ELSE LET line == lines[i]
             mc == IF markerCount = Null /\ IsMarker(line, tableName)
                   THEN line.n ELSE markerCount
         IN  IF ~inCopyBlock
             THEN BackupScanLoop(lines, i + 1, tableName,
                                 IsCopyStart(line, tableName), count, mc)
             ELSE IF IsTerminator(line)
             THEN [inCopyBlock |-> TRUE, count |-> count, markerCount |-> mc]
             ELSE BackupScanLoop(lines, i + 1, tableName, TRUE,
                                 IF NonEmpty(line) THEN count + 1 ELSE count, mc)

\* backupController.js countTableRowsInSql, the stream read without error.
BackupCountTableRowsInSql(lines, tableName) ==
    LET r == BackupScanLoop(lines, 1, tableName, FALSE, 0, Null)
    IN  IF r.markerCount # Null THEN r.markerCount
        ELSE IF r.inCopyBlock THEN r.count ELSE 0

\* restoreController.js countUsersRowsInSql: the for-await loop, from line i.
RECURSIVE RestoreUsersScanLoop(_, _, _, _, _)
RestoreUsersScanLoop(lines, i, inUsersCopy, count, markerCount) ==
    IF i > Len(lines)
    THEN [inUsersCopy |-> inUsersCopy, count |-> count, markerCount |-> markerCount]
    ELSE LET line == lines[i]
             mc == IF markerCount = Null /\ IsMarker(line, "users")
                   THEN line.n ELSE markerCount
         IN  IF ~inUsersCopy
             THEN RestoreUsersScanLoop(lines, i + 1,
                                       IsCopyStart(line, "users"), count, mc)
             ELSE IF IsTerminator(line)
             THEN [inUsersCopy |-> TRUE, count |-> count, markerCount |-> mc]
             ELSE RestoreUsersScanLoop(lines, i + 1, TRUE,
                                       IF NonEmpty(line) THEN count + 1 ELSE count, mc)

\* restoreController.js countUsersRowsInSql, the stream read without error.
RestoreCountUsersRowsInSql(lines) ==
    LET r == RestoreUsersScanLoop(lines, 1, FALSE, 0, Null)
    IN  IF r.markerCount # Null THEN r.markerCount ELSE r.count

\* restoreController.js countTableRowsInSql: the for-await loop, from line i.
RECURSIVE RestoreTableScanLoop(_, _, _, _, _)
RestoreTableScanLoop(lines, i, tableName, inCopyBlock, count) ==
    IF i > Len(lines)
    THEN [inCopyBlock |-> inCopyBlock, count |-> count]
    ELSE LET line == lines[i]
         IN  IF ~inCopyBlock
             THEN RestoreTableScanLoop(lines, i + 1, tableName,
                                       IsCopyStart(line, tableName), count)
             ELSE IF IsTerminator(line)
             THEN [inCopyBlock |-> TRUE, count |-> count]
             ELSE RestoreTableScanLoop(lines, i + 1, tableName, TRUE,
                                       IF NonEmpty(line) THEN count + 1 ELSE count)

\* restoreController.js countTableRowsInSql, the stream read without error.
RestoreCountTableRowsInSql(lines, tableName) ==
    LET r == RestoreTableScanLoop(lines, 1, tableName, FALSE, 0)
    IN  IF r.inCopyBlock THEN r.count ELSE Null

\* The three scanners that are called: backup verification scans orders and
\* order_items with its countTableRowsInSql; the restore pre-scan uses
\* countUsersRowsInSql for users and countTableRowsInSql for the other two.
\* The two countTableRowsInSql take any table name.
Scanners == {"backup.countTableRowsInSql", "restore.countUsersRowsInSql",
             "restore.countTableRowsInSql"}

ScannerTables(fn) ==
    IF fn = "restore.countUsersRowsInSql" THEN {"users"} ELSE TableSet

RunScanner(fn, lines, tableName) ==
    IF fn = "backup.countTableRowsInSql" THEN BackupCountTableRowsInSql(lines, tableName)
    ELSE IF fn = "restore.countUsersRowsInSql" THEN RestoreCountUsersRowsInSql(lines)
    ELSE RestoreCountTableRowsInSql(lines, tableName)

\* ------------------------------------------------------- the dump written
Counts == 0 .. MaxRows

\* Row ids 1..n as a sequence (rows are fetched ORDER BY id ASC).
Ids(n) == [i \in 1 .. n |-> i]

\* What pg_dump writes for one table: nothing when the table's block is
\* missing (c = Null), else the COPY header, c data lines and the terminator.
CopyBlock(t, c) ==
    IF c = Null THEN <<>>
    ELSE <<CopyLine(t)>> \o [i \in 1 .. c |-> DataLine(i)] \o <<TermLine, BlankLine>>

\* What pg_dump writes for the id sequence of a table whose block it wrote.
SequenceSet(t, c) == IF c = Null THEN <<>> ELSE <<SetvalLine(t, c)>>

\* The file pg_dump -F p -f writes: the schema section, the data blocks,
\* the sequence values.
PgDumpOutput(copy) ==
    <<CommentLine("-"), SqlLine, InertLine, CommentLine("-"), InertLine>>
        \o CopyBlock("users", copy["users"])
        \o CopyBlock("orders", copy["orders"])
        \o CopyBlock("order_items", copy["order_items"])
        \o SequenceSet("users", copy["users"])
        \o SequenceSet("orders", copy["orders"])
        \o SequenceSet("order_items", copy["order_items"])

\* appendTableUpsertBlock: the text appended for n rows of a table.
UpsertBlock(tableName, n) ==
    IF n = 0 THEN <<>>
    ELSE <<BlankLine, BlankLine, MarkerLine(tableName, n), CommentLine(tableName)>>
             \o [i \in 1 .. n |-> UpsertLine(tableName, i)]

\* The file after the first k of the three appendTableUpsertBlock calls.
RECURSIVE AppendBlocks(_, _, _)
AppendBlocks(file, rows, k) ==
    IF k = 0 THEN file
    ELSE AppendBlocks(file, rows, k - 1) \o UpsertBlock(Tables[k], rows[Tables[k]])

\* ------------------------------------------------------------ backup runs
RunSlots == 1 .. MaxRuns

NoRows == [t \in TableSet |-> 0]

\* process.env.BACKUP_DIR is left unset.
envBackupRoot == ""

\* The milliseconds of a second: toISOString() ends in .sssZ.
MsPerSecond == 1000

\* new Date().toISOString().replace(/[:.]/g, '-').slice(0, -5): the instant
\* without its last five characters, the milliseconds and the Z.
Timestamp(now) == now \div MsPerSecond

\* path.join(backupRoot, 'mountain_made_backups'), as path components;
\* req.body.folderPath is left empty.
BackupDir(drive) ==
    IF envBackupRoot # "" THEN <<envBackupRoot, "mountain_made_backups">>
    ELSE IF isWindows THEN <<drive, "mountain_made_backups">>
    ELSE <<"/tmp", "mountain_made_backups">>

\* path.join(backupDir, `mountain_made_backup_${timestamp}.sql`)
FilePath(backupDir, now) == [dir |-> backupDir, timestamp |-> Timestamp(now)]

NoPath == [dir |-> <<>>, timestamp |-> 0]

NoRun ==
    [pc |-> "idle", by |-> "-", backupDir |-> <<>>, filePath |-> NoPath,
     usersTotal |-> 0, rows |-> NoRows, file |-> <<>>,
     ordersRowsInDump |-> Null, orderItemsRowsInDump |-> Null,
     pgError |-> "", recordId |-> 0, thrown |-> <<"", "">>]

\* Messages exec rejects with when pg_dump does not run or exits non-zero.
PgDumpErrors ==
    {"'pg_dump' is not recognized as an internal or external command",
     "/bin/sh: 1: pg_dump: not found",
     "pg_dump: error: connection to server failed"}

InFlight(r) == runs[r].pc \notin {"idle", "returned", "raised"}

\* Backup.create: INSERT INTO backups ... RETURNING *
BackupCreate(status, error_message) ==
    Append(backups, [id |-> Len(backups) + 1, status |-> status,
                     error_message |-> error_message])

\* The flag cleared after the try block, not in a finally: only a run that
\* returns clears it.
SettledOnReturn(r) ==
    isAutoBackupRunning' = IF runs[r].by = "auto" /\ runs'[r].pc = "returned"
                           THEN FALSE ELSE isAutoBackupRunning

\* runJob's finally, run when the promise of an automated run settles; a
\* manual run's caller (createBackup) holds no flag.
Settled(r) ==
    isAutoBackupRunning' = IF runs[r].by = "auto" THEN FALSE ELSE isAutoBackupRunning

\* createBackupInternal up to its first await (lines 202-223).
BeginBackup(r, by, drive) ==
    /\ runs[r].pc = "idle"
    /\ IF isWindows /\ drive = "" /\ envBackupRoot = ""
       THEN runs' = [runs EXCEPT ![r] =
                [NoRun EXCEPT !.pc = "raised", !.by = by,
                              !.thrown = <<"Drive is required on Windows", "">>]]
       ELSE runs' = [runs EXCEPT ![r] = [NoRun EXCEPT !.pc = "mkdir", !.by = by,
                                                      !.backupDir = BackupDir(drive)]]

\* await fs.mkdir(backupDir, { recursive: true }), then the filename.
Mkdir(r) ==
    /\ runs[r].pc = "mkdir"
    /\ \/ /\ runs' = [runs EXCEPT ![r].pc = "snapshot",
                                  ![r].filePath = FilePath(runs[r].backupDir, clock)]
          /\ UNCHANGED isAutoBackupRunning
       \/ /\ runs' = [runs EXCEPT ![r].pc = "raised",
                         ![r].thrown = <<"Failed to create backup directory: ", "EACCES">>]
          /\ Settled(r)
    /\ UNCHANGED <<callArg, callRes, clock, scanFile, scanRes, isWindows, liveCounts, backups, autoBackupTimer, lastJob, rs, db>>

\* The users count query; its failure is caught and leaves usersTotal = 0.
Snapshot(r) ==
    /\ runs[r].pc = "snapshot"
    /\ \/ \E n \in liveCounts : runs' = [runs EXCEPT ![r].pc = "pg_dump", ![r].usersTotal = n]
       \/ runs' = [runs EXCEPT ![r].pc = "pg_dump", ![r].usersTotal = 0]
    /\ UNCHANGED <<callArg, callRes, clock, scanFile, scanRes, isWindows, liveCounts, backups,
                   autoBackupTimer, isAutoBackupRunning, lastJob, rs, db>>

\* await execAsync(pgDumpCommand): pg_dump writes the file, or exec rejects.
PgDump(r) ==
    /\ runs[r].pc = "pg_dump"
    /\ \/ \E copy \in [TableSet -> {Null} \cup liveCounts] :
              runs' = [runs EXCEPT ![r].pc = "fetch", ![r].file = PgDumpOutput(copy)]
       \/ \E e \in PgDumpErrors :
              runs' = [runs EXCEPT ![r].pc = "catch", ![r].pgError = e]
    /\ UNCHANGED <<callArg, callRes, clock, scanFile, scanRes, isWindows, liveCounts, backups,
                   autoBackupTimer, isAutoBackupRunning, lastJob, rs, db>>

\* The three SELECT * ... ORDER BY id ASC queries.
FetchRows(r) ==
    /\ runs[r].pc = "fetch"
    /\ \/ \E rows \in [TableSet -> liveCounts] :
              runs' = [runs EXCEPT ![r].pc = "append", ![r].rows = rows]
       \/ runs' = [runs EXCEPT ![r].pc = "catch", ![r].pgError = "query failed"]
    /\ UNCHANGED <<callArg, callRes, clock, scanFile, scanRes, isWindows, liveCounts, backups,
                   autoBackupTimer, isAutoBackupRunning, lastJob, rs, db>>

\* The three appendTableUpsertBlock calls; the first k succeed.
AppendUpserts(r) ==
    /\ runs[r].pc = "append"
    /\ \/ runs' = [runs EXCEPT ![r].pc = "stat",
                               ![r].file = AppendBlocks(runs[r].file, runs[r].rows, 3)]
       \/ \E k \in 0 .. 2 :
              runs' = [runs EXCEPT ![r].pc = "catch", ![r].pgError = "append failed",
                                   ![r].file = AppendBlocks(runs[r].file, runs[r].rows, k)]
    /\ UNCHANGED <<callArg, callRes, clock, scanFile, scanRes, isWindows, liveCounts, backups,
                   autoBackupTimer, isAutoBackupRunning, lastJob, rs, db>>

\* await fs.stat(filePath)
Stat(r) ==
    /\ runs[r].pc = "stat"
    /\ \/ runs' = [runs EXCEPT ![r].pc = "verify"]
       \/ runs' = [runs EXCEPT ![r].pc = "catch", ![r].pgError = "stat failed"]
    /\ UNCHANGED <<callArg, callRes, clock, scanFile, scanRes, isWindows, liveCounts, backups,
                   autoBackupTimer, isAutoBackupRunning, lastJob, rs, db>>

\* The read of the written file by countTableRowsInSql: the count, or null
\* when the stream fails (the catch of the scanner).
ScanOutcomes(file, tableName) == {BackupCountTableRowsInSql(file, tableName), Null}

\* Lines 291-308: the message of the verification error thrown, "" for none.
VerificationError(usersTotal, rows, ordersRowsInDump, orderItemsRowsInDump) ==
    IF rows["users"] < usersTotal
    THEN "Backup verification failed: users"
    ELSE IF ordersRowsInDump # Null /\ ordersRowsInDump < rows["orders"]
    THEN "Backup verification failed: orders"
    ELSE IF orderItemsRowsInDump # Null /\ orderItemsRowsInDump < rows["order_items"]
    THEN "Backup verification failed: order_items"
    ELSE ""

\* Step 6: the users comparison, the two scans of the file, the comparisons.
Verify(r) ==
    /\ runs[r].pc = "verify"
    /\ IF runs[r].rows["users"] < runs[r].usersTotal
       THEN runs' = [runs EXCEPT ![r].pc = "catch",
                                 ![r].pgError = "Backup verification failed: users"]
       ELSE \E o \in ScanOutcomes(runs[r].file, "orders"),
               i \in ScanOutcomes(runs[r].file, "order_items") :
                LET e == VerificationError(runs[r].usersTotal, runs[r].rows, o, i)
                IN  runs' = [runs EXCEPT ![r].pc = IF e = "" THEN "create" ELSE "catch",
                                         ![r].pgError = e,
                                         ![r].ordersRowsInDump = o,
                                         ![r].orderItemsRowsInDump = i]
    /\ UNCHANGED <<callArg, callRes, clock, scanFile, scanRes, isWindows, liveCounts, backups,
                   autoBackupTimer, isAutoBackupRunning, lastJob, rs, db>>

\* await Backup.create({..., status: 'completed'}) and the return.
CreateCompleted(r) ==
    /\ runs[r].pc = "create"
    /\ \/ /\ backups' = BackupCreate("completed", "")
          /\ runs' = [runs EXCEPT ![r].pc = "returned", ![r].recordId = Len(backups) + 1]
          /\ Settled(r)
       \/ /\ runs' = [runs EXCEPT ![r].pc = "catch", ![r].pgError = "insert failed"]
          /\ UNCHANGED <<backups, isAutoBackupRunning>>
    /\ UNCHANGED <<callArg, callRes, clock, scanFile, scanRes, isWindows, liveCounts, autoBackupTimer, lastJob, rs, db>>

\* Lines 356-366: the message of the error thrown from the catch block.
ErrorMessage(pgError) ==
    IF pgError = "'pg_dump' is not recognized as an internal or external command"
    THEN <<"pg_dump executable not found. Set PG_DUMP_PATH in your .env", "">>
    ELSE <<"Database backup failed: ", pgError>>

\* catch (pgError): await Backup.create({..., status: 'failed'}), then throw.
Catch(r) ==
    /\ runs[r].pc = "catch"
    /\ \/ /\ backups' = BackupCreate("failed", runs[r].pgError)
          /\ runs' = [runs EXCEPT ![r].pc = "raised", ![r].recordId = Len(backups) + 1,
                                  ![r].thrown = ErrorMessage(runs[r].pgError)]
       \/ /\ runs' = [runs EXCEPT ![r].pc = "raised", ![r].thrown = <<"insert failed", "">>]
          /\ UNCHANGED backups
    /\ Settled(r)
    /\ UNCHANGED <<callArg, callRes, clock, scanFile, scanRes, isWindows, liveCounts, autoBackupTimer, lastJob, rs, db>>

\* The caller is done with the settled run: createBackup has answered
\* (res.json or status 500), runJob has logged it.
Forget(r) ==
    /\ runs[r].pc \in {"returned", "raised"}
    /\ runs' = [runs EXCEPT ![r] = NoRun]
    /\ UNCHANGED <<callArg, callRes, clock, scanFile, scanRes, isWindows, liveCounts, backups,
                   autoBackupTimer, isAutoBackupRunning, lastJob, rs, db>>

\* exports.createBackup: a manual request with req.body.drive.
CreateBackup(r) ==
    /\ Len(backups) < MaxBackups
    /\ \A q \in RunSlots : runs[q].pc = "idle"
    /\ \E drive \in {"", "D:"} : BeginBackup(r, "manual", drive)
    /\ UNCHANGED <<callArg, callRes, clock, scanFile, scanRes, isWindows, liveCounts, backups,
                   autoBackupTimer, isAutoBackupRunning, lastJob, rs, db>>

\* exports.createBackup while other backups are under way: nothing in the
\* handler or in createBackupInternal waits for them.
CreateBackupMeanwhile(r) ==
    /\ Len(backups) < MaxBackups
    /\ \E drive \in {"", "D:"} : BeginBackup(r, "manual", drive)
    /\ UNCHANGED <<callArg, callRes, clock, scanFile, scanRes, isWindows, liveCounts, backups,
                   autoBackupTimer, isAutoBackupRunning, lastJob, rs, db>>

\* Time passes, by a millisecond or by a second, before a run reads the
\* clock (it is read nowhere else).
Tick ==
    /\ \E r \in RunSlots : runs[r].pc = "mkdir"
    /\ (clock \div MsPerSecond) + (clock % MsPerSecond) < MaxTicks
    /\ \E d \in {1, MsPerSecond} : clock' = clock + d
    /\ UNCHANGED <<callArg, callRes, scanFile, scanRes, isWindows, liveCounts, runs, backups,
                   autoBackupTimer, isAutoBackupRunning, lastJob, rs, db>>

BackupStep(r) ==
    \/ Mkdir(r)
    \/ Snapshot(r)
    \/ PgDump(r)
    \/ FetchRows(r)
    \/ AppendUpserts(r)
    \/ Stat(r)
    \/ Verify(r)
    \/ CreateCompleted(r)
    \/ Catch(r)
    \/ Forget(r)

\* -------------------------------------------------------------- scheduler
\* runJob without its guard.
SkipRunNever == FALSE

\* runJob line 412: the tick finds an automated run in flight.
SkipRun == isAutoBackupRunning

\* The slot a new run takes.
FreeSlot(r) == runs[r].pc = "idle" /\ \A q \in RunSlots : q < r => runs[q].pc # "idle"

\* const runJob = async () => {...}, up to the await of runAutomatedBackup,
\* whose drive is AUTO_BACKUP_DRIVE || (isWindows ? 'C:' : '/').
RunJob ==
    IF SkipRun
    THEN /\ lastJob' = [what |-> "skipped", flip |-> ~lastJob.flip]
         /\ UNCHANGED <<runs, isAutoBackupRunning>>
    ELSE /\ lastJob' = [what |-> "started", flip |-> ~lastJob.flip]
         /\ isAutoBackupRunning' = TRUE
         /\ \E r \in RunSlots : FreeSlot(r) /\ BeginBackup(r, "auto", "/")

\* exports.startAutoBackupScheduler with AUTO_BACKUP_ENABLED and
\* AUTO_BACKUP_RUN_ON_STARTUP as read from process.env.
StartAutoBackupScheduler ==
    /\ Len(backups) < MaxBackups
    /\ \A q \in RunSlots : runs[q].pc \notin {"returned", "raised"}
    /\ \E enabled \in BOOLEAN, runOnStartup \in BOOLEAN :
          IF ~enabled \/ autoBackupTimer
          THEN UNCHANGED <<autoBackupTimer, runs, isAutoBackupRunning, lastJob>>
          ELSE /\ autoBackupTimer' = TRUE
               /\ IF runOnStartup THEN RunJob
                  ELSE UNCHANGED <<runs, isAutoBackupRunning, lastJob>>
    /\ UNCHANGED <<callArg, callRes, clock, scanFile, scanRes, isWindows, liveCounts, backups, rs, db>>

\* The interval timer fires: setInterval(runJob, intervalMs).  A timer
\* callback runs after the continuation of a settled run has run.
TimerFires ==
    /\ autoBackupTimer
    /\ \A q \in RunSlots : runs[q].pc \notin {"returned", "raised"}
    /\ Len(backups) < MaxBackups
    /\ RunJob
    /\ UNCHANGED <<callArg, callRes, clock, scanFile, scanRes, isWindows, liveCounts, backups, autoBackupTimer, rs, db>>

\* ---------------------------------------------------------------- restore
\* A statement a restore executes: [k, t, ids, lead].  k is the line it
\* comes from, ids the row ids it inserts into table t (for a setval, the
\* value it sets), and lead tells that
\* comment lines precede it in the text of the statement.
Statement(k, t, ids, lead) == [k |-> k, t |-> t, ids |-> ids, lead |-> lead]

HasSemicolon(line) == line.k \in {"sql", "inert", "insert", "upsert", "setval"}

\* transformPlainSqlDump, from line i; inTable is the table of the COPY
\* block being rewritten, "" outside a block.
RECURSIVE TransformFrom(_, _, _)
TransformFrom(lines, i, inTable) ==
    IF i > Len(lines) THEN <<>>
    ELSE LET line == lines[i]
         IN  IF inTable = ""
             THEN IF line.k = "copy" THEN TransformFrom(lines, i + 1, line.t)
                  ELSE IF line.k = "term" THEN TransformFrom(lines, i + 1, "")
                  ELSE <<line>> \o TransformFrom(lines, i + 1, "")
             ELSE IF IsTerminator(line) THEN TransformFrom(lines, i + 1, "")
                  ELSE IF line.k = "blank" THEN TransformFrom(lines, i + 1, inTable)
                  ELSE <<InsertLine(inTable, line.n)>> \o TransformFrom(lines, i + 1, inTable)

transformPlainSqlDump(lines) == TransformFrom(lines, 1, "")

\* splitSqlStatements on whole lines: a statement ends at the line that
\* holds its semicolon; comment lines before it are part of its text; text
\* left after the last semicolon is the last statement.
RECURSIVE SplitFrom(_, _, _)
SplitFrom(lines, i, lead) ==
    IF i > Len(lines)
    THEN IF lead THEN <<Statement("comment", "-", {}, TRUE)>> ELSE <<>>
    ELSE LET line == lines[i]
         IN  IF HasSemicolon(line)
             THEN <<Statement(line.k, line.t,
                              IF line.k \in {"insert", "upsert", "setval"} THEN {line.n} ELSE {},
                              lead)>> \o SplitFrom(lines, i + 1, FALSE)
             ELSE SplitFrom(lines, i + 1, lead \/ line.k # "blank")

splitSqlStatements(lines) == SplitFrom(lines, 1, FALSE)

\* The statements psql -f executes: as above, but a COPY block is one
\* statement that loads all its data lines.
RECURSIVE CopyIds(_, _)
CopyIds(lines, i) ==
    IF i > Len(lines) \/ IsTerminator(lines[i]) THEN {}
    ELSE (IF lines[i].k = "blank" THEN {} ELSE {lines[i].n}) \cup CopyIds(lines, i + 1)

RECURSIVE AfterBlock(_, _)
AfterBlock(lines, i) ==
    IF i > Len(lines) THEN i
    ELSE IF IsTerminator(lines[i]) THEN i + 1 ELSE AfterBlock(lines, i + 1)

RECURSIVE PsqlFrom(_, _, _)
PsqlFrom(lines, i, lead) ==
    IF i > Len(lines) THEN <<>>
    ELSE LET line == lines[i]
         IN  IF line.k = "copy"
             THEN <<Statement("copy", line.t, CopyIds(lines, i + 1), lead)>>
                      \o PsqlFrom(lines, AfterBlock(lines, i + 1), FALSE)
             ELSE IF HasSemicolon(line)
             THEN <<Statement(line.k, line.t,
                              IF line.k \in {"insert", "upsert", "setval"} THEN {line.n} ELSE {},
                              lead)>> \o PsqlFrom(lines, i + 1, FALSE)
             ELSE PsqlFrom(lines, i + 1, lead \/ line.k # "blank")

PsqlStatements(lines) == PsqlFrom(lines, 1, FALSE)

\* The pattern looked for anywhere in the statement's text, not at its start.
shouldIgnoreRestoreStatementAnywhere(statement) == statement.k = "inert"

\* shouldIgnoreRestoreStatement: the normalised text starts with ALTER
\* DEFAULT PRIVILEGES or COMMENT ON EXTENSION.
shouldIgnoreRestoreStatement(statement) == statement.k = "inert" /\ ~statement.lead

\* An error of exec or of db.query: its code and the phrases that its
\* lower-cased message and stderr hold.
Err(code, phrases) == [code |-> code, phrases |-> phrases]
NoError == Err("", {})

NativeErrors ==
    {Err("ENOENT", {}),
     Err("127", {"command not found"}),
     Err("3", {"must be member of role"}),
     Err("3", {"role", "does not exist"}),
     Err("3", {"does not exist"}),
     Err("3", {"syntax error"}),
     Err("127", {"command not found", "must be member of role"})}

StatementErrors ==
    {Err("42501", {"permission denied to change default privileges"}),
     Err("42501", {"must be member of role"}),
     Err("42704", {"role", "does not exist"}),
     Err("42601", {"syntax error"})}

\* Every statement error is taken for benign.
isIgnorableRestoreErrorAlways(error) == TRUE

isIgnorableRestoreError(error) ==
    \/ "permission denied to change default privileges" \in error.phrases
    \/ "must be member of role" \in error.phrases

isPsqlMissingError(error) ==
    \/ error.code = "ENOENT"
    \/ "not recognized as an internal or external command" \in error.phrases
    \/ "command not found" \in error.phrases
    \/ "no such file or directory" \in error.phrases

isNonCriticalPsqlPermissionError(error) ==
    \/ "permission denied to change default privileges" \in error.phrases
    \/ "must be member of role" \in error.phrases
    \/ ("role" \in error.phrases /\ "does not exist" \in error.phrases)

\* The catch with its first two tests in the other order.
RecoveryBenignFirst(psqlError) ==
    IF isNonCriticalPsqlPermissionError(psqlError) THEN "psql-tolerant"
    ELSE IF isPsqlMissingError(psqlError) THEN "pg-fallback(no-psql)"
    ELSE "pg-fallback(psql-failed)"

\* Lines 361-380: what the catch of the first psql run does with psqlError.
RecoveryAction(psqlError) ==
    IF isPsqlMissingError(psqlError) THEN "pg-fallback(no-psql)"
    ELSE IF isNonCriticalPsqlPermissionError(psqlError) THEN "psql-tolerant"
    ELSE "pg-fallback(psql-failed)"

\* A sequence, as created with its table: nextval returns 1 first.
NewSeq == [last |-> 1, called |-> FALSE]

\* nextval of a sequence, were it called now.
NextVal(seq) == IF seq.called THEN seq.last + 1 ELSE seq.last

Max(S) == CHOOSE x \in S : \A y \in S : y <= x
Min(S) == CHOOSE x \in S : \A y \in S : x <= y

\* DROP SCHEMA IF EXISTS public CASCADE; CREATE SCHEMA public; and the tables
\* and sequences the restored schema section or initializeDatabase creates.
EmptyDb == [rows |-> [t \in TableSet |-> {}], seq |-> [t \in TableSet |-> NewSeq]]

\* A statement that succeeds: its rows are in the table afterwards (INSERT
\* and COPY carry explicit ids and leave the sequence alone); a setval
\* sets the sequence.
Apply(d, statement) ==
    IF statement.k = "setval"
    THEN [d EXCEPT !.seq[statement.t] =
             IF statement.ids = {0} THEN NewSeq
             ELSE [last |-> Max(statement.ids), called |-> TRUE]]
    ELSE IF statement.t \in TableSet
    THEN [d EXCEPT !.rows[statement.t] = @ \cup statement.ids]
    ELSE d

\* syncTableSequence: setval(seq, COALESCE((SELECT MAX(id) FROM t), 1), true)
syncTableSequence(d, tableName) ==
    [d EXCEPT !.seq[tableName] =
        [last |-> IF d.rows[tableName] = {} THEN 1 ELSE Max(d.rows[tableName]),
         called |-> TRUE]]

\* The loop of runPostRestoreRepair over the tables of its list whose rows
\* the model holds, in the order of the list; a table of failed is one whose
\* syncTableSequence throws (the loop catches it and goes on).
RECURSIVE SyncTables(_, _, _)
SyncTables(d, k, failed) ==
    IF k = 0 THEN d
    ELSE IF Tables[k] \in failed THEN SyncTables(d, k - 1, failed)
    ELSE syncTableSequence(SyncTables(d, k - 1, failed), Tables[k])

\* User.ensureAdmin and User.ensureSuperAdmin: the built-in accounts that are
\* missing (missing of them) are inserted with ids the users sequence gives.
RECURSIVE EnsureAdmins(_, _)
EnsureAdmins(d, missing) ==
    IF missing = 0 THEN d
    ELSE LET id == NextVal(d.seq["users"])
         IN  EnsureAdmins([d EXCEPT !.rows["users"] = @ \cup {id},
                                    !.seq["users"] = [last |-> id, called |-> TRUE]],
                          missing - 1)

\* The INSERT of a missing account fails on a duplicate key when the users
\* sequence gives an id that a restored row holds.
RECURSIVE EnsureAdminsCollide(_, _)
EnsureAdminsCollide(d, missing) ==
    /\ missing > 0
    /\ \/ NextVal(d.seq["users"]) \in d.rows["users"]
       \/ EnsureAdminsCollide(EnsureAdmins(d, 1), missing - 1)

\* ------------------------------------------------- restoreDatabase steps
NoExpected == [t \in TableSet |-> Null]

NoResponse == [status |-> 0]

IdleRestore ==
    [pc |-> "idle", sqlFilePath |-> "", file |-> <<>>, expected |-> NoExpected,
     restoreMethod |-> "", fallbackStats |-> <<>>, statements |-> <<>>, idx |-> 0,
     executedStatements |-> 0, skippedStatements |-> 0,
     psqlError |-> NoError, lastError |-> NoError, path |-> <<>>,
     benignSkipped |-> FALSE, passedOver |-> 0,
     response |-> NoResponse, unlinked |-> FALSE]

\* The dumps uploaded: what a backup writes for a database with n rows in
\* each critical table when pg_dump wrote c data lines for each (none for
\* c = Null).
UploadFiles ==
    {AppendBlocks(PgDumpOutput([t \in TableSet |-> c]), [t \in TableSet |-> n], 3) :
        c \in {Null} \cup (0 .. MaxDumpRows), n \in 0 .. MaxDumpRows}

\* The handler without its finally block.
UnlinkNever(sqlFilePath) == FALSE

\* finally { if (sqlFilePath) fs.unlink(sqlFilePath, () => {}) }
UnlinkIssued(sqlFilePath) == sqlFilePath # ""

\* The call once the handler has ended with this response and its finally
\* block has run.
Ended(response) ==
    [rs EXCEPT !.pc = "done", !.response = response,
               !.unlinked = UnlinkIssued(rs.sqlFilePath)]

Finish(response) == rs' = Ended(response)

\* The error swallowed: the handler answers as after a restore.
FailUnreported(error) ==
    Finish([status |-> 200, message |-> "Database restored successfully."])

\* catch (error): res.status(500).json({ error: 'Restore failed: ' + message })
Fail(error) == Finish([status |-> 500, error |-> error])

\* Lines 331-336: the request, with or without req.file.
RestoreRequest ==
    /\ rs.pc = "idle"
    /\ \/ Finish([status |-> 400, error |-> "No file uploaded"])
       \/ \E f \in UploadFiles :
              rs' = [rs EXCEPT !.pc = "prescan", !.sqlFilePath = "tmp/upload", !.file = f]
    /\ UNCHANGED <<callArg, callRes, clock, scanFile, scanRes, isWindows, liveCounts, runs, backups,
                   autoBackupTimer, isAutoBackupRunning, lastJob, db>>

\* What a pre-scan of the table returns: the count, or null from the catch
\* of the scanner when its read of the uploaded file fails.
PrescanOutcome(lines, tableName, readable) ==
    IF ~readable THEN Null
    ELSE IF tableName = "users" THEN RestoreCountUsersRowsInSql(lines)
    ELSE RestoreCountTableRowsInSql(lines, tableName)

\* Lines 339-341: the three scans of the uploaded file; unread holds the
\* tables whose scan fails to read it.
Prescan ==
    /\ rs.pc = "prescan"
    /\ \E unread \in SUBSET TableSet :
          rs' = [rs EXCEPT !.pc = "reset",
                    !.expected = [t \in TableSet |->
                                     PrescanOutcome(rs.file, t, t \notin unread)]]
    /\ UNCHANGED <<callArg, callRes, clock, scanFile, scanRes, isWindows, liveCounts, runs, backups,
                   autoBackupTimer, isAutoBackupRunning, lastJob, db>>

\* Step 1, line 353: the schema reset before the restore.
Reset ==
    /\ rs.pc = "reset"
    /\ \/ /\ db' = EmptyDb
          /\ rs' = [rs EXCEPT !.pc = "psql", !.idx = 1, !.restoreMethod = "psql",
                              !.statements = PsqlStatements(rs.file),
                              !.path = Append(@, "reset")]
       \/ /\ Fail("schema reset failed")
          /\ UNCHANGED db
    /\ UNCHANGED <<callArg, callRes, clock, scanFile, scanRes, isWindows, liveCounts, runs, backups,
                   autoBackupTimer, isAutoBackupRunning, lastJob>>

\* Lines 359-380: psql -v ON_ERROR_STOP=1 -f executes the next statement of
\* the file, ends, or exec rejects with psqlError and the catch picks the
\* recovery.
Psql ==
    /\ rs.pc = "psql"
    /\ LET statements == rs.statements
       IN  \/ /\ rs.idx <= Len(statements)
              /\ db' = Apply(db, statements[rs.idx])
              /\ rs' = [rs EXCEPT !.idx = @ + 1, !.path = <<"reset", "psql">>]
           \/ /\ rs.idx > Len(statements)
              /\ rs' = [rs EXCEPT !.pc = "repair", !.path = <<"reset", "psql">>]
              /\ UNCHANGED db
           \/ /\ \E psqlError \in NativeErrors :
                    LET recovery == RecoveryAction(psqlError)
                    IN  rs' = [rs EXCEPT
                               !.pc = IF recovery = "psql-tolerant" THEN "tolerant" ELSE "reset2",
                               !.idx = 1, !.psqlError = psqlError,
                               !.path = IF recovery = "psql-tolerant"
                                        THEN <<"reset", "psql", "tolerant">>
                                        ELSE <<"reset", "psql">>]
              /\ UNCHANGED db
    /\ UNCHANGED <<callArg, callRes, clock, scanFile, scanRes, isWindows, liveCounts, runs, backups,
                   autoBackupTimer, isAutoBackupRunning, lastJob>>

\* Lines 365-367 and 377-379: the schema reset, restoreMethod, and
\* restoreWithPgClient up to its loop (lines 151-156).
Reset2 ==
    /\ rs.pc = "reset2"
    /\ \/ /\ db' = EmptyDb
          /\ Fail("ENOENT: no such file or directory, open")
       \/ /\ db' = EmptyDb
          /\ rs' = [rs EXCEPT !.pc = "fallback", !.idx = 1,
                              !.restoreMethod = RecoveryAction(rs.psqlError),
                              !.statements = splitSqlStatements(transformPlainSqlDump(rs.file)),
                              !.executedStatements = 0, !.skippedStatements = 0,
                              !.path = rs.path \o <<"reset", "fallback">>]
       \/ /\ Fail("schema reset failed")
          /\ UNCHANGED db
    /\ UNCHANGED <<callArg, callRes, clock, scanFile, scanRes, isWindows, liveCounts, runs, backups,
                   autoBackupTimer, isAutoBackupRunning, lastJob>>

\* Lines 371-373: psql -v ON_ERROR_STOP=0 -f executes the next statement
\* (a statement that fails is passed over), ends, or exec rejects.
Tolerant ==
    /\ rs.pc = "tolerant"
    /\ LET statements == rs.statements
       IN  \/ /\ rs.idx <= Len(statements)
              /\ db' = Apply(db, statements[rs.idx])
              /\ rs' = [rs EXCEPT !.idx = @ + 1]
           \/ /\ rs.idx <= Len(statements)
              /\ rs.passedOver < MaxStatementErrors
              /\ \E e \in StatementErrors :
                    rs' = [rs EXCEPT !.idx = @ + 1, !.passedOver = @ + 1,
                                     !.benignSkipped = @ \/ isIgnorableRestoreError(e)]
              /\ UNCHANGED db
           \/ /\ rs.idx > Len(statements)
              /\ rs' = [rs EXCEPT !.pc = "repair", !.restoreMethod = "psql-tolerant"]
              /\ UNCHANGED db
           \/ /\ Fail("psql: connection to server was lost")
              /\ UNCHANGED db
    /\ UNCHANGED <<callArg, callRes, clock, scanFile, scanRes, isWindows, liveCounts, runs, backups,
                   autoBackupTimer, isAutoBackupRunning, lastJob>>

\* The loop going on to the next statement without counting this one.
SkipStatementUncounted == [rs EXCEPT !.idx = @ + 1]

\* Lines 159-162 and 168-171: skippedStatements += 1; continue.
SkipStatement == [rs EXCEPT !.idx = @ + 1, !.skippedStatements = @ + 1]

\* restoreWithPgClient: one turn of its loop over the statements, or its
\* return of { executedStatements, skippedStatements }.  lastError is the
\* error of the latest catch of the loop; it is gone when the function returns
\* and it stays when the function throws it.
RestoreWithPgClient ==
    /\ rs.pc = "fallback"
    /\ LET statements == rs.statements
           statement == statements[rs.idx]
       IN  \/ /\ rs.idx <= Len(statements)
              /\ shouldIgnoreRestoreStatement(statement)
              /\ rs' = SkipStatement
              /\ UNCHANGED db
           \/ /\ rs.idx <= Len(statements)
              /\ ~shouldIgnoreRestoreStatement(statement)
              /\ db' = Apply(db, statement)
              /\ rs' = [rs EXCEPT !.idx = @ + 1, !.executedStatements = @ + 1]
           \/ /\ rs.idx <= Len(statements)
              /\ ~shouldIgnoreRestoreStatement(statement)
              /\ \E error \in StatementErrors :
                    IF isIgnorableRestoreError(error)
                    THEN /\ rs.passedOver < MaxStatementErrors
                         /\ rs' = [SkipStatement EXCEPT !.passedOver = @ + 1,
                                                         !.benignSkipped = TRUE,
                                                         !.lastError = error]
                    ELSE rs' = [Ended([status |-> 500, error |-> error.phrases])
                                   EXCEPT !.lastError = error]
              /\ UNCHANGED db
           \/ /\ rs.idx > Len(statements)
              /\ rs' = [rs EXCEPT !.pc = "repair",
                          !.fallbackStats = <<rs.executedStatements, rs.skippedStatements>>,
                          !.lastError = NoError]
              /\ UNCHANGED db
    /\ UNCHANGED <<callArg, callRes, clock, scanFile, scanRes, isWindows, liveCounts, runs, backups,
                   autoBackupTimer, isAutoBackupRunning, lastJob>>

\* runPostRestoreRepair: initializeDatabase, the admin accounts, the
\* sequences.
RunPostRestoreRepair ==
    /\ rs.pc = "repair"
    /\ \/ /\ Fail("Database initialization error")
          /\ UNCHANGED db
       \/ \E missing \in {m \in 0 .. 2 : m + Cardinality(db.rows["users"]) >= 2},
             failed \in SUBSET TableSet :
              IF EnsureAdminsCollide(db, missing)
              THEN /\ Fail("duplicate key value violates unique constraint")
                   /\ UNCHANGED db
              ELSE /\ db' = SyncTables(EnsureAdmins(db, missing), 3, failed)
                   /\ rs' = [rs EXCEPT !.pc = "verify"]
    /\ UNCHANGED <<callArg, callRes, clock, scanFile, scanRes, isWindows, liveCounts, runs, backups,
                   autoBackupTimer, isAutoBackupRunning, lastJob>>

\* The response with the live counts taken for the baseline.
ResponseLiveBaseline(expected, counts, restoreMethod, fallbackStats) ==
    [status |-> 200,
     message |-> "Database restored successfully.",
     counts |-> counts,
     expected |-> counts,
     restoreMethod |-> restoreMethod,
     skippedStatements |-> IF fallbackStats = <<>> THEN 0 ELSE fallbackStats[2],
     warning |-> {}]

\* Lines 403-450: the response of a restore that ran to its end.
Response(expected, counts, restoreMethod, fallbackStats) ==
    LET mismatch == {t \in TableSet : expected[t] # Null /\ counts[t] < expected[t]}
    IN  IF expected["users"] # Null /\ expected["users"] <= 1
        THEN [status |-> 200,
              message |-> "restored, but the backup contains only admin/no additional users",
              usersCount |-> counts["users"],
              expectedUsersFromBackup |-> expected["users"],
              warning |-> "Backup file has no non-admin users to restore."]
        ELSE [status |-> 200,
              message |-> IF "users" \in mismatch
                          THEN "restored, but found fewer users than expected"
                          ELSE "Database restored successfully.",
              counts |-> counts,
              expected |-> expected,
              restoreMethod |-> restoreMethod,
              skippedStatements |-> IF fallbackStats = <<>> THEN 0 ELSE fallbackStats[2],
              warning |-> mismatch]

\* Lines 387-450: the three count queries (the first k succeed; a failure is
\* caught and leaves the remaining counts 0), then the response.
VerifyAndRespond ==
    /\ rs.pc = "verify"
    /\ \E k \in 0 .. 3 :
          LET counts == [t \in TableSet |->
                            IF \E j \in 1 .. k : Tables[j] = t
                            THEN Cardinality(db.rows[t]) ELSE 0]
          IN  Finish(Response(rs.expected, counts, rs.restoreMethod, rs.fallbackStats))
    /\ UNCHANGED <<callArg, callRes, clock, scanFile, scanRes, isWindows, liveCounts, runs, backups,
                   autoBackupTimer, isAutoBackupRunning, lastJob, db>>

RestoreStep ==
    \/ RestoreRequest
    \/ Prescan
    \/ Reset
    \/ Psql
    \/ Reset2
    \/ Tolerant
    \/ RestoreWithPgClient
    \/ RunPostRestoreRepair
    \/ VerifyAndRespond

\* --------------------------------------------------- text, by character
\* callRes when no function of this part has been called.
NoCall == [fn |-> "-", out |-> <<>>]

\* A text is a sequence of one-character strings.  [A-Za-z0-9_] of the tag
\* regex, for the characters the texts of this module are written with.
WordChars == {"a", "b", "t", "g", "x", "I", "N", "S", "E", "R", "T", "O", "V", "A", "L", "U", "C", "_", "1"}

\* What String.prototype.trim removes.
Whitespace == {" ", "\t", "\n"}

RECURSIVE TrimStart(_)
TrimStart(s) ==
    IF s # <<>> /\ Head(s) \in Whitespace THEN TrimStart(Tail(s)) ELSE s

RECURSIVE TrimEnd(_)
TrimEnd(s) ==
    IF s # <<>> /\ s[Len(s)] \in Whitespace THEN TrimEnd(SubSeq(s, 1, Len(s) - 1)) ELSE s

Trim(s) == TrimEnd(TrimStart(s))

\* sqlContent.startsWith(tag, index); positions count from 1 here.
StartsWith(s, tag, index) ==
    /\ index + Len(tag) - 1 <= Len(s)
    /\ SubSeq(s, index, index + Len(tag) - 1) = tag

\* The end of the run of word characters that starts at position j.
RECURSIVE WordRunEnd(_, _)
WordRunEnd(s, j) ==
    IF j <= Len(s) /\ s[j] \in WordChars THEN WordRunEnd(s, j + 1) ELSE j

\* sqlContent.slice(index).match(/^\$[A-Za-z0-9_]*\$/): the tag matched at
\* position index, <<>> for no match (a tag holds at least the two $).
TagMatch(s, index) ==
    LET e == WordRunEnd(s, index + 1) IN
    IF s[index] = "$" /\ e <= Len(s) /\ s[e] = "$" THEN SubSeq(s, index, e) ELSE <<>>

\* ------------------------------------------------- splitSqlStatements
\* The scanner's variables before the loop.  dollarQuoteTag = <<>> is null;
\* cuts is not a variable of the code: it records the positions of the
\* semicolons at which `start = index + 1` was executed.
SplitStart ==
    [start |-> 1, inSingleQuote |-> FALSE, dollarQuoteTag |-> <<>>, statements |-> <<>>, cuts |-> {}]

\* In quote state a doubled quote is stepped over without leaving the state
\* (the first test of the loop body).
SkipsDoubledQuoteUnchecked(s, index) == s[index] = "'"
SkipsDoubledQuote(s, index) ==
    s[index] = "'" /\ index + 1 <= Len(s) /\ s[index + 1] = "'"

\* In dollar-quote state the tag that opened the body closes it.
ClosesBodyAnyTag(s, tag, index) == TagMatch(s, index) # <<>>
ClosesBody(s, tag, index) == StartsWith(s, tag, index)

\* The statement sliced up to the semicolon, the semicolon left out.
PushStatementBeforeSemicolon(s, st, index) ==
    LET statement == Trim(SubSeq(s, st.start, index - 1)) IN
    [st EXCEPT !.statements = IF statement # <<>> THEN Append(@, statement) ELSE @,
               !.start = index + 1,
               !.cuts = @ \cup {index}]

\* The statement pushed at the semicolon at position index.
PushStatement(s, st, index) ==
    LET statement == Trim(SubSeq(s, st.start, index)) IN
    [st EXCEPT !.statements = IF statement # <<>> THEN Append(@, statement) ELSE @,
               !.start = index + 1,
               !.cuts = @ \cup {index}]

\* The for loop, from position index on.
RECURSIVE SplitLoop(_, _, _)
SplitLoop(s, index, st) ==
    IF index > Len(s) THEN st
    ELSE IF st.inSingleQuote THEN
        IF SkipsDoubledQuote(s, index) THEN SplitLoop(s, index + 2, st)
        ELSE IF s[index] = "'" THEN SplitLoop(s, index + 1, [st EXCEPT !.inSingleQuote = FALSE])
        ELSE SplitLoop(s, index + 1, st)
    ELSE IF st.dollarQuoteTag # <<>> THEN
        IF ClosesBody(s, st.dollarQuoteTag, index)
        THEN SplitLoop(s, index + Len(st.dollarQuoteTag), [st EXCEPT !.dollarQuoteTag = <<>>])
        ELSE SplitLoop(s, index + 1, st)
    ELSE IF s[index] = "'" THEN SplitLoop(s, index + 1, [st EXCEPT !.inSingleQuote = TRUE])
    ELSE IF s[index] = "$" /\ TagMatch(s, index) # <<>>
    THEN SplitLoop(s, index + Len(TagMatch(s, index)), [st EXCEPT !.dollarQuoteTag = TagMatch(s, index)])
    ELSE IF s[index] = ";" THEN SplitLoop(s, index + 1, PushStatement(s, st, index))
    ELSE SplitLoop(s, index + 1, st)

\* splitSqlStatements(sqlContent) on a text: the loop, then the trailing text.
splitSqlContent(sqlContent) ==
    LET st == SplitLoop(sqlContent, 1, SplitStart)
        trailing == Trim(SubSeq(sqlContent, st.start, Len(sqlContent)))
    IN  [statements |-> IF trailing # <<>> THEN Append(st.statements, trailing) ELSE st.statements,
         cuts |-> st.cuts]

\* The texts split in SpecSplit: every text of at most MaxChars characters
\* of SplitAlphabet, and the two scripts spec.md names.
SplitAlphabet == {"'", ";", "$", "a", " "}

QuotedScript ==
    <<"I", "N", "S", "E", "R", "T", " ", "I", "N", "T", "O", " ", "t", " ", "V", "A", "L", "U", "E", "S", " ", "(", "'", "a", ";", "b", "'", ")", ";">>

\* SELECT $$a$$, 'x;y';
MixedScript ==
    <<"S", "E", "L", "E", "C", "T", " ", "$", "$", "a", "$", "$", ",", " ", "'", "x", ";", "y", "'", ";">>

DollarScript ==
    <<"S", "E", "L", "E", "C", "T", " ", "$", "t", "a", "g", "$", " ", "a", ";", "b", " ", "$", "t", "a", "g", "$", ";">>

SplitTexts ==
    UNION {[1..n -> SplitAlphabet] : n \in 0..MaxChars} \cup {QuotedScript, DollarScript, MixedScript}

\* A call of a function of this part on callArg: fn is the function, out
\* what it returns.
Call(fn, out) ==
    /\ callRes = NoCall
    /\ callRes' = [fn |-> fn, out |-> out]
    /\ UNCHANGED <<callArg, clock, scanFile, scanRes, isWindows, liveCounts, runs, backups, autoBackupTimer, isAutoBackupRunning, lastJob, rs, db>>

Split == Call("splitSqlStatements", splitSqlContent(callArg))

\* ------------------------------------------------------ the literal codec
\* A JavaScript value is [type, text]: text is the string itself, or
\* String(value) of a number or boolean, or toISOString() of a Date.
JsNull == [type |-> "null", text |-> <<>>]
JsUndefined == [type |-> "undefined", text |-> <<>>]
Str(text) == [type |-> "string", text |-> text]

Backslash == "\\"

\* The character an escape letter denotes; BS and VT stand for the
\* backspace and the vertical tab.
EscapeLetters == <<"t", "n", "r", "b", "f", "v">>

Denotes(c) ==
    CASE c = "t" -> "\t"
      [] c = "n" -> "\n"
      [] c = "r" -> "\r"
      [] c = "b" -> "BS"
      [] c = "f" -> "\f"
      [] c = "v" -> "VT"

\* String.prototype.replace with a global pattern: every occurrence of pat,
\* found from left to right without overlap, becomes by.
RECURSIVE ReplaceAll(_, _, _)
ReplaceAll(s, pat, by) ==
    IF s = <<>> THEN <<>>
    ELSE IF StartsWith(s, pat, 1) THEN by \o ReplaceAll(SubSeq(s, Len(pat) + 1, Len(s)), pat, by)
    ELSE <<Head(s)>> \o ReplaceAll(Tail(s), pat, by)

\* String.prototype.replace with a string pattern: the first occurrence only.
RECURSIVE ReplaceFirst(_, _, _)
ReplaceFirst(s, pat, by) ==
    IF s = <<>> THEN <<>>
    ELSE IF StartsWith(s, pat, 1) THEN by \o SubSeq(s, Len(pat) + 1, Len(s))
    ELSE <<Head(s)>> \o ReplaceFirst(Tail(s), pat, by)

\* The chained replace calls of decodeCopyValue from the k-th on.  The regex
\* literal /\\\\t/g matches two backslashes and a t; /\\\\\\\\/g matches
\* four backslashes.
RECURSIVE DecodePasses(_, _)
DecodePasses(s, k) ==
    IF k > Len(EscapeLetters) THEN ReplaceAll(s, <<Backslash, Backslash, Backslash, Backslash>>, <<Backslash>>)
    ELSE DecodePasses(ReplaceAll(s, <<Backslash, Backslash, EscapeLetters[k]>>, <<Denotes(EscapeLetters[k])>>), k + 1)

decodeCopyValue(value) ==
    IF value = <<Backslash, "N">> THEN JsNull ELSE Str(DecodePasses(value, 1))

\* .replace(/'/g, "''") of both encoders.
EscapeQuotesNot(text) == text
EscapeQuotes(text) == ReplaceAll(text, <<"'">>, <<"'", "'">>)

Quoted(text) == <<"'">> \o text \o <<"'">>

NULL == <<"N", "U", "L", "L">>

\* toSqlLiteral of restoreController.js.
RestoreToSqlLiteral(value) ==
    IF value.type \in {"null", "undefined"} THEN NULL
    ELSE Quoted(EscapeQuotes(value.text))

\* toSqlLiteral of backupController.js.
BackupToSqlLiteral(value) ==
    IF value.type \in {"null", "undefined"} THEN NULL
    ELSE IF value.type = "number" THEN IF value.text \in {<<"NaN">>, <<"Infinity">>} THEN NULL ELSE value.text
    ELSE IF value.type = "boolean" THEN IF value.text = <<"true">> THEN <<"T", "R", "U", "E">> ELSE <<"F", "A", "L", "S", "E">>
    ELSE IF value.type = "date" THEN Quoted(ReplaceFirst(ReplaceFirst(value.text, <<"T">>, <<" ">>), <<"Z">>, <<>>))
    ELSE Quoted(EscapeQuotes(value.text))

\* The values of SpecCodec: every string of at most MaxField characters of
\* CodecAlphabet, and some values of the other types.
CodecAlphabet == {Backslash, "'", "N", "n", "t"}

CodecStrings == UNION {[1..n -> CodecAlphabet] : n \in 0..MaxField}

CodecValues ==
    {Str(text) : text \in CodecStrings}
        \cup {JsNull, JsUndefined}
        \cup {[type |-> "number", text |-> t] : t \in {<<"7">>, <<"NaN">>, <<"Infinity">>}}
        \cup {[type |-> "boolean", text |-> t] : t \in {<<"true">>, <<"false">>}}
        \cup {[type |-> "date", text |-> <<"1", "T", "2", "Z">>]}

\* decodeCopyValue is handed the pieces of a line split at the tabs.
Decode ==
    /\ callArg.type = "string"
    /\ Call("decodeCopyValue", decodeCopyValue(callArg.text))

\* The restore encoder is handed what decodeCopyValue returned.
EncodeRestore ==
    /\ callArg.type \in {"null", "undefined", "string"}
    /\ Call("restore.toSqlLiteral", RestoreToSqlLiteral(callArg))

EncodeBackup == Call("backup.toSqlLiteral", BackupToSqlLiteral(callArg))

\* ------------------------------------------- appendTableUpsertBlock, by value
\* A row is a function from its fields (columns holds Object.keys of the
\* first row) to JavaScript values.  A JSON column comes from the driver as
\* an object, and String(object) is the text [object Object].
Num(text) == [type |-> "number", text |-> text]
JsObject == [type |-> "object", text |-> <<"[object Object]">>]

Includes(seq, x) == \E i \in DOMAIN seq : seq[i] = x

\* columns.filter(col => col !== conflictTarget)
RECURSIVE Without(_, _)
Without(seq, x) ==
    IF seq = <<>> THEN <<>>
    ELSE IF Head(seq) = x THEN Without(Tail(seq), x)
    ELSE <<Head(seq)>> \o Without(Tail(seq), x)

conflictTarget(columns) == IF Includes(columns, "id") THEN "id" ELSE columns[1]

\* The INSERT ... ON CONFLICT statement written for one row.
UpsertStatement(tableName, columns, row) ==
    [table |-> tableName,
     columns |-> columns,
     values |-> [i \in DOMAIN columns |-> BackupToSqlLiteral(row[columns[i]])],
     conflictTarget |-> conflictTarget(columns),
     updateSet |-> Without(columns, conflictTarget(columns))]

\* The block appended for the rows: nothing for no rows, else the marker
\* with rows.length and one statement per row.
appendTableUpsertBlock(tableName, columns, rows) ==
    IF rows = <<>> THEN <<>>
    ELSE <<[marker |-> tableName, total |-> Len(rows)]>>
             \o [i \in DOMAIN rows |-> UpsertStatement(tableName, columns, rows[i])]

\* The value a literal denotes to the database (a column of no particular
\* type: a quoted literal is a string).
ReadLiteral(literal) ==
    IF literal = NULL THEN JsNull
    ELSE IF Head(literal) = "'" THEN Str(ReplaceAll(SubSeq(literal, 2, Len(literal) - 1), <<"'", "'">>, <<"'">>))
    ELSE IF literal = <<"T", "R", "U", "E">> THEN [type |-> "boolean", text |-> <<"true">>]
    ELSE IF literal = <<"F", "A", "L", "S", "E">> THEN [type |-> "boolean", text |-> <<"false">>]
    ELSE Num(literal)

\* The table (a set of rows) after the statement, the conflict target being
\* a unique column: the row is inserted, or the row with the same target
\* value has its other columns overwritten.  A statement with an empty SET
\* list is a syntax error and changes nothing.
ApplyUpsert(table, statement) ==
    IF "marker" \in DOMAIN statement \/ statement.updateSet = <<>> THEN table
    ELSE LET cols == {statement.columns[i] : i \in DOMAIN statement.columns}
             new == [c \in cols |-> ReadLiteral(statement.values[CHOOSE i \in DOMAIN statement.columns : statement.columns[i] = c])]
         IN  {r \in table : r[statement.conflictTarget] # new[statement.conflictTarget]} \cup {new}

RECURSIVE ApplyBlock(_, _)
ApplyBlock(table, block) ==
    IF block = <<>> THEN table ELSE ApplyBlock(ApplyUpsert(table, Head(block)), Tail(block))

\* The inputs of SpecUpsert: the lists of at most MaxUpsertRows rows over
\* each of the field lists.
UpsertColumns == {<<"id", "v">>, <<"v", "id">>, <<"k", "v">>, <<"id">>}

FieldValues(col) ==
    IF col = "id" THEN {Num(<<"1">>), Num(<<"2">>)}
    ELSE IF col = "k" THEN {Str(<<"a">>), Str(<<"b">>)}
    ELSE {JsNull, Str(<<"'">>), Num(<<"7">>), Num(<<"NaN">>), JsObject}

RowsOver(columns) ==
    LET cols == {columns[i] : i \in DOMAIN columns}
    IN  {r \in [cols -> UNION {FieldValues(c) : c \in cols}] : \A c \in cols : r[c] \in FieldValues(c)}

RowLists(columns) == UNION {[1..n -> RowsOver(columns)] : n \in 0..MaxUpsertRows}

UpsertInputs ==
    UNION {{[columns |-> columns, rows |-> rows] : rows \in RowLists(columns)} : columns \in UpsertColumns}

\* The block generated for callArg, and the table after it has been applied
\* once and twice to the empty table.
Upsert ==
    LET block == appendTableUpsertBlock("orders", callArg.columns, callArg.rows)
    IN  Call("appendTableUpsertBlock",
             [block |-> block,
              once |-> ApplyBlock({}, block),
              twice |-> ApplyBlock(ApplyBlock({}, block), block)])

\* ------------------------------------------ transformPlainSqlDump, by text
\* A line of the dump with its text: k is "copy" for a line the header regex
\* matches (table and columns are its two groups; its text is held as one
\* character), "text" for any other line, "insert" for a statement the
\* transformer writes (literals are the literals of its VALUES list).
HeaderLine(tableName, columns) ==
    [k |-> "copy", table |-> tableName, columns |-> columns,
     text |-> <<"COPY ... FROM stdin;">>, literals |-> <<>>]

TextLine(text) ==
    [k |-> "text", table |-> "", columns |-> "", text |-> text, literals |-> <<>>]

InsertStatement(tableName, columns, literals) ==
    [k |-> "insert", table |-> tableName, columns |-> columns, text |-> <<>>, literals |-> literals]

\* rowLine.split('\t')
RECURSIVE SplitTab(_)
SplitTab(text) ==
    IF \A i \in DOMAIN text : text[i] # "\t" THEN <<text>>
    ELSE LET i == Min({j \in DOMAIN text : text[j] = "\t"})
         IN  <<SubSeq(text, 1, i - 1)>> \o SplitTab(SubSeq(text, i + 1, Len(text)))

\* line.trim().startsWith('\\')
StartsWithBackslash(text) == StartsWith(Trim(text), <<Backslash>>, 1)

\* rowLine.trim() === '\\.'
EndsBlockNever(text) == FALSE
EndsBlock(text) == Trim(text) = <<Backslash, ".">>

\* The statement written for a data line of the block of header.
RowInsert(header, rowLine) ==
    LET values == [i \in DOMAIN SplitTab(rowLine.text) |-> decodeCopyValue(SplitTab(rowLine.text)[i])]
    IN  InsertStatement(header.table, header.columns,
                        [i \in DOMAIN values |-> RestoreToSqlLiteral(values[i])])

\* The inner loop, from the line after the header to the terminator or the
\* end: <<the lines written, the index the loop stopped at>>.
RECURSIVE RowLoop(_, _, _)
RowLoop(lines, index, header) ==
    IF index > Len(lines) THEN <<<<>>, index>>
    ELSE IF EndsBlock(lines[index].text) THEN <<<<>>, index>>
    ELSE IF Len(lines[index].text) = 0 THEN RowLoop(lines, index + 1, header)
    ELSE LET rest == RowLoop(lines, index + 1, header)
         IN  <<<<RowInsert(header, lines[index])>> \o rest[1], rest[2]>>

\* The outer loop from line index on.
RECURSIVE LineLoop(_, _)
LineLoop(lines, index) ==
    IF index > Len(lines) THEN <<>>
    ELSE IF lines[index].k # "copy"
    THEN IF StartsWithBackslash(lines[index].text) THEN LineLoop(lines, index + 1)
         ELSE <<lines[index]>> \o LineLoop(lines, index + 1)
    ELSE LET rows == RowLoop(lines, index + 1, lines[index])
         IN  rows[1] \o LineLoop(lines, rows[2] + 1)

transformDumpText(lines) == LineLoop(lines, 1)

\* The lines of SpecTransform: two headers, the terminator (bare and with
\* blanks around it), backslash commands (at the margin and indented), an
\* empty and a blank line, and data lines of one and two fields.
TransformLines ==
    {HeaderLine("users", "id, name"), HeaderLine("orders", "id")}
        \cup {TextLine(t) : t \in {<<>>, <<" ">>, <<".">>, <<Backslash, ".">>,
                                   <<" ", Backslash, ".", " ">>, <<Backslash, "c">>,
                                   <<" ", Backslash, "c">>, <<Backslash, "N", "\t", "'">>,
                                   <<"1", "\t", "a">>}}

TransformFiles == UNION {[1..n -> TransformLines] : n \in 0..MaxLines}

Transform == Call("transformPlainSqlDump", transformDumpText(callArg))

\* ------------------------------------------------------- scanner harness
ScanAlphabet ==
    {CopyLine(t) : t \in TableSet}
        \cup {MarkerLine(t, n) : t \in TableSet, n \in 0 .. MaxMarker}
        \cup {DataLine(1), BlankLine, TermLine}

ScanFiles == UNION {[1 .. n -> ScanAlphabet] : n \in 0 .. MaxLines}

NoScan == [fn |-> "-", table |-> "-", out |-> Null]

\* One scanner reads scanFile for one table.
Scan(fn, tableName) ==
    /\ scanRes' = [fn |-> fn, table |-> tableName,
                   out |-> RunScanner(fn, scanFile, tableName)]
    /\ UNCHANGED <<callArg, callRes, clock, scanFile, isWindows, liveCounts, runs, backups,
                   autoBackupTimer, isAutoBackupRunning, lastJob, rs, db>>

\* ------------------------------------------------------- specifications
InitBackupState ==
    /\ clock = 0
    /\ runs = [r \in RunSlots |-> NoRun]
    /\ backups = <<>>
    /\ autoBackupTimer = FALSE
    /\ isAutoBackupRunning = FALSE
    /\ lastJob = [what |-> "none", flip |-> FALSE]

InitCallIdle ==
    /\ callArg = <<>>
    /\ callRes = NoCall

InitScanIdle ==
    /\ InitCallIdle
    /\ scanFile = <<>>
    /\ scanRes = NoScan

\* The database before a restore: it holds rows, its sequences are ahead.
InitRestoreIdle ==
    /\ rs = IdleRestore
    /\ db = [rows |-> [t \in TableSet |-> {1}],
             seq |-> [t \in TableSet |-> [last |-> 1, called |-> TRUE]]]

\* Manual backups, one at a time, of a database that is written meanwhile.
Init ==
    /\ InitScanIdle
    /\ isWindows \in BOOLEAN
    /\ liveCounts = Counts
    /\ InitBackupState
    /\ InitRestoreIdle

Next ==
    \/ \E r \in RunSlots : FreeSlot(r) /\ CreateBackup(r)
    \/ \E r \in RunSlots : BackupStep(r)

Spec == Init /\ [][Next]_vars

\* Manual backups that overlap, and the clock, of a database that holds
\* MaxRows rows of every table throughout.  Of the interleavings of two
\* runs those are taken in which a run that has not named its file yet
\* steps first and, of the others, the one in the lower slot, up to the
\* moment its caller is done with it.
Turn(r) ==
    \/ runs[r].pc = "mkdir"
    \/ \A q \in RunSlots \ {r} : runs[q].pc # "mkdir" /\ (q < r => runs[q].pc = "idle")

InitOverlap ==
    /\ InitScanIdle
    /\ isWindows = FALSE
    /\ liveCounts = {MaxRows}
    /\ InitBackupState
    /\ InitRestoreIdle

NextOverlap ==
    \/ \E r \in RunSlots : FreeSlot(r) /\ CreateBackupMeanwhile(r)
    \/ \E r \in RunSlots : Turn(r) /\ BackupStep(r)
    \/ Tick

SpecOverlap == InitOverlap /\ [][NextOverlap]_vars

\* The scheduler and the automated runs it starts, of a database that holds
\* MaxRows rows of every table throughout.
InitSched ==
    /\ InitScanIdle
    /\ isWindows = FALSE
    /\ liveCounts = {MaxRows}
    /\ InitBackupState
    /\ InitRestoreIdle

NextSched ==
    \/ StartAutoBackupScheduler
    \/ TimerFires
    \/ \E r \in RunSlots : BackupStep(r)

SpecSched == InitSched /\ [][NextSched]_vars

\* The scheduler when every run terminates: the awaited backup of runJob
\* settles, so no slot holds a run in flight for ever.  The timer's ticks are
\* under no obligation.
SpecSchedFair ==
    SpecSched /\ \A r \in RunSlots : []<>(runs[r].pc \in {"idle", "returned", "raised"})

\* The scanners on every file of at most MaxLines lines.
InitScan ==
    /\ InitCallIdle
    /\ scanFile \in ScanFiles
    /\ scanRes = NoScan
    /\ isWindows = FALSE
    /\ liveCounts = Counts
    /\ InitBackupState
    /\ InitRestoreIdle

NextScan == \E fn \in Scanners : \E t \in ScannerTables(fn) : Scan(fn, t)

SpecScan == InitScan /\ [][NextScan]_vars

\* One restore of an uploaded dump.
InitRestore ==
    /\ InitScanIdle
    /\ isWindows = FALSE
    /\ liveCounts = Counts
    /\ InitBackupState
    /\ InitRestoreIdle

NextRestore == RestoreStep

SpecRestore == InitRestore /\ [][NextRestore]_vars

\* splitSqlStatements on every text of SplitTexts.
InitSplit ==
    /\ callArg \in SplitTexts
    /\ callRes = NoCall
    /\ scanFile = <<>>
    /\ scanRes = NoScan
    /\ isWindows = FALSE
    /\ liveCounts = Counts
    /\ InitBackupState
    /\ InitRestoreIdle

NextSplit == Split

SpecSplit == InitSplit /\ [][NextSplit]_vars

\* decodeCopyValue and the two toSqlLiteral on every value of CodecValues.
InitCodec ==
    /\ callArg \in CodecValues
    /\ callRes = NoCall
    /\ scanFile = <<>>
    /\ scanRes = NoScan
    /\ isWindows = FALSE
    /\ liveCounts = Counts
    /\ InitBackupState
    /\ InitRestoreIdle

NextCodec == Decode \/ EncodeRestore \/ EncodeBackup

SpecCodec == InitCodec /\ [][NextCodec]_vars

\* appendTableUpsertBlock on every input of UpsertInputs.
InitUpsert ==
    /\ callArg \in UpsertInputs
    /\ callRes = NoCall
    /\ scanFile = <<>>
    /\ scanRes = NoScan
    /\ isWindows = FALSE
    /\ liveCounts = Counts
    /\ InitBackupState
    /\ InitRestoreIdle

NextUpsert == Upsert

SpecUpsert == InitUpsert /\ [][NextUpsert]_vars

\* transformPlainSqlDump on every file of TransformFiles.
InitTransform ==
    /\ callArg \in TransformFiles
    /\ callRes = NoCall
    /\ scanFile = <<>>
    /\ scanRes = NoScan
    /\ isWindows = FALSE
    /\ liveCounts = Counts
    /\ InitBackupState
    /\ InitRestoreIdle

NextTransform == Transform

SpecTransform == InitTransform /\ [][NextTransform]_vars

\* ================================================================ claims
\* ---------------------------------------------------------------- backup
\* C1: a record with status completed is persisted only by a run whose
\* three comparisons were shown to hold: users fetched >= users snapshotted,
\* and for orders and order_items a count was scanned from the written file
\* and it is >= the rows fetched.
C1_CompletedOnlyWhenVerified ==
    \A r \in RunSlots :
        runs[r].pc = "returned" =>
            /\ runs[r].rows["users"] >= runs[r].usersTotal
            /\ runs[r].ordersRowsInDump # Null
            /\ runs[r].ordersRowsInDump >= runs[r].rows["orders"]
            /\ runs[r].orderItemsRowsInDump # Null
            /\ runs[r].orderItemsRowsInDump >= runs[r].rows["order_items"]

\* C2: every backup attempt that raises its error to the caller has left a
\* record with status failed that carries the captured error message.
C2_FailedRecordOnEveryFailure ==
    \A r \in RunSlots :
        runs[r].pc = "raised" =>
            /\ runs[r].recordId \in 1 .. Len(backups)
            /\ backups[runs[r].recordId].status = "failed"
            /\ backups[runs[r].recordId].error_message = runs[r].pgError

\* C5: in step 6 of a backup, the count scanned for orders and for
\* order_items equals the number of rows fetched in step 5 whenever that
\* number is > 0 (the marker written after the block is what counts).
C5_MarkerAfterBlockAuthoritative ==
    \A r \in RunSlots :
        /\ (runs[r].ordersRowsInDump # Null /\ runs[r].rows["orders"] > 0)
               => runs[r].ordersRowsInDump = runs[r].rows["orders"]
        /\ (runs[r].orderItemsRowsInDump # Null /\ runs[r].rows["order_items"] > 0)
               => runs[r].orderItemsRowsInDump = runs[r].rows["order_items"]

\* --------------------------------------------------------------- scanners
\* The lines of the file that are markers of the table.
MarkerIndexes(lines, tableName) ==
    {i \in 1 .. Len(lines) : IsMarker(lines[i], tableName)}

\* The lines that start a COPY block of the table.
CopyIndexes(lines, tableName) ==
    {i \in 1 .. Len(lines) : IsCopyStart(lines[i], tableName)}

\* The line that ends the table's COPY block; past the end of the file when
\* the file has no such block or the block is not terminated.
BlockTerminator(lines, tableName) ==
    LET starts == CopyIndexes(lines, tableName)
        ends == IF starts = {} THEN {}
                ELSE {i \in Min(starts) + 1 .. Len(lines) : IsTerminator(lines[i])}
    IN  IF ends = {} THEN Len(lines) + 1 ELSE Min(ends)

\* C4: whatever scanner read the file, for whatever table: when a marker of
\* the table stands before the terminator of the table's block, the scanner
\* returned the marker's N.
C4_MarkerAuthoritativeForEveryScanner ==
    scanRes # NoScan =>
        LET before == {i \in MarkerIndexes(scanFile, scanRes.table) :
                          i < BlockTerminator(scanFile, scanRes.table)}
        IN  (before # {} /\ BlockTerminator(scanFile, scanRes.table) <= Len(scanFile))
                => scanRes.out = scanFile[Min(before)].n

\* C6: whatever scanner read the file, for whatever table: when the file
\* holds neither a COPY block nor a marker of the table, the scanner
\* returned null, not 0.
C6_UnknownWhenTableAbsent ==
    (/\ scanRes # NoScan
     /\ MarkerIndexes(scanFile, scanRes.table) = {}
     /\ CopyIndexes(scanFile, scanRes.table) = {})
        => scanRes.out = Null

\* -------------------------------------------------------------- scheduler
AutoInFlight == {r \in RunSlots : runs[r].by = "auto" /\ InFlight(r)}

\* C9: at most one automated run is in flight; a trigger (lastJob.flip
\* changes) that finds one in flight starts nothing and is recorded as
\* skipped; and a run is started only by the trigger step itself, never
\* later on behalf of a skipped trigger.
C9_SingleAutomatedRunInFlight ==
    /\ [](Cardinality(AutoInFlight) <= 1)
    /\ [][(lastJob'.flip # lastJob.flip /\ AutoInFlight # {})
             => (runs' = runs /\ lastJob'.what = "skipped")]_vars
    /\ [][(\E r \in RunSlots : runs[r].pc = "idle" /\ runs'[r].pc # "idle")
             => (lastJob'.flip # lastJob.flip /\ lastJob'.what = "started")]_vars

\* A trigger was skipped while an automated run was in flight.
C9_Witness == lastJob.what = "skipped" /\ AutoInFlight # {}

\* ---------------------------------------------------------------- restore
\* The ids of the rows of the table that the dump holds: the data lines of
\* its COPY block and the rows of its upsert block.
RECURSIVE DumpedIdsFrom(_, _, _, _)
DumpedIdsFrom(lines, i, tableName, inTable) ==
    IF i > Len(lines) THEN {}
    ELSE LET line == lines[i]
             here == IF (line.k = "data" /\ inTable = tableName)
                        \/ (line.k = "upsert" /\ line.t = tableName)
                     THEN {line.n} ELSE {}
             next == IF line.k = "copy" THEN line.t
                     ELSE IF line.k = "term" THEN "" ELSE inTable
         IN  here \cup DumpedIdsFrom(lines, i + 1, tableName, next)

DumpedIds(lines, tableName) == DumpedIdsFrom(lines, 1, tableName, "")

\* The restore has answered 200 "Database restored successfully." without
\* a warning.
PlainSuccess ==
    /\ rs.pc = "done"
    /\ rs.response.status = 200
    /\ rs.response.message = "Database restored successfully."
    /\ rs.response.warning = {}

\* C3: after a restore that reports success and skipped no statement for a
\* benign error, every critical table holds at least as many rows as the
\* dump holds for it.
C3_NonLoss ==
    (PlainSuccess /\ ~rs.benignSkipped) =>
        \A t \in TableSet :
            Cardinality(db.rows[t]) >= Cardinality(DumpedIds(rs.file, t))

\* The class of the error of the first psql run.
ErrorClass(error) ==
    IF isPsqlMissingError(error) THEN "missing"
    ELSE IF isNonCriticalPsqlPermissionError(error) THEN "benign"
    ELSE "other"

IsPrefix(p, q) == Len(p) <= Len(q) /\ SubSeq(q, 1, Len(p)) = p

\* C7: once the first psql run has failed, the steps taken are those of the
\* class of its error: missing or other -> reset, then fallback, never the
\* tolerant run; benign -> the tolerant run, once, no reset, no fallback.
\* The fallback starts only right after a reset that follows the failed
\* run, and a reported restoreMethod names the path taken.
C7_RecoveryByErrorClass ==
    rs.psqlError # NoError =>
        /\ ErrorClass(rs.psqlError) \in {"missing", "other"}
              => IsPrefix(rs.path, <<"reset", "psql", "reset", "fallback">>)
        /\ ErrorClass(rs.psqlError) = "benign"
              => rs.path = <<"reset", "psql", "tolerant">>
        /\ \A i \in 1 .. Len(rs.path) :
              rs.path[i] = "fallback"
                 => i > 2 /\ rs.path[i - 1] = "reset" /\ rs.path[i - 2] = "psql"
        /\ rs.pc \in {"fallback", "tolerant"} => rs.path[Len(rs.path)] = rs.pc
        /\ (rs.pc = "done" /\ "restoreMethod" \in DOMAIN rs.response)
              => rs.response.restoreMethod =
                    IF ErrorClass(rs.psqlError) = "missing" THEN "pg-fallback(no-psql)"
                    ELSE IF ErrorClass(rs.psqlError) = "benign" THEN "psql-tolerant"
                    ELSE "pg-fallback(psql-failed)"

\* psql was not found, and the restore answered with the fallback's name.
C7_Witness ==
    /\ rs.pc = "done"
    /\ rs.psqlError = Err("127", {"command not found"})
    /\ "restoreMethod" \in DOMAIN rs.response
    /\ rs.response.restoreMethod = "pg-fallback(no-psql)"
    /\ rs.path = <<"reset", "psql", "reset", "fallback">>

\* C8: a restore call that received a file and has ended, however it ended,
\* has issued the unlink of the file.
C8_TempFileUnlinkedOnEveryExit ==
    (rs.pc = "done" /\ rs.sqlFilePath # "") => rs.unlinked

\* The fallback aborted on a statement error; the unlink was issued.
C8_Witness ==
    /\ rs.pc = "done"
    /\ rs.sqlFilePath # ""
    /\ rs.response.status = 500
    /\ "fallback" \in {rs.path[i] : i \in 1 .. Len(rs.path)}
    /\ rs.unlinked

\* C10: after the repair, the next id of every table's sequence is
\* max(id) + 1 when the table holds rows and 1 when it is empty.
C10_SequenceResync ==
    rs.pc = "verify" =>
        \A t \in TableSet :
            NextVal(db.seq[t]) = IF db.rows[t] = {} THEN 1 ELSE Max(db.rows[t]) + 1

\* C11: every restore response that reports success carries restoreMethod,
\* naming the path that was used, and skippedStatements, whatever the
\* pre-scan counts were.
C11_SuccessCarriesMethodAndSkipped ==
    (rs.pc = "done" /\ rs.response.status = 200) =>
        /\ "restoreMethod" \in DOMAIN rs.response
        /\ "skippedStatements" \in DOMAIN rs.response
        /\ rs.response.restoreMethod = rs.restoreMethod

\* C12: when a restore has run to its verification and a critical table
\* holds fewer rows than its known pre-scan count, the response is a
\* success whose warning reports that table, with the expected count and
\* the restored count.
C12_ShortfallWarned ==
    (rs.pc = "done" /\ rs.response.status = 200) =>
        \A t \in TableSet :
            (rs.expected[t] # Null /\ Cardinality(db.rows[t]) < rs.expected[t]) =>
                /\ "counts" \in DOMAIN rs.response
                /\ t \in rs.response.warning
                /\ rs.response.expected[t] = rs.expected[t]
                /\ rs.response.counts[t] = Cardinality(db.rows[t])

\* ------------------------------------------------------ statement splitter
SplitDone == callRes.fn = "splitSqlStatements"

\* The number of single quotes among the first n characters of the text.
QuotesBefore(s, n) == Cardinality({j \in 1..n : s[j] = "'"})

\* The part of the text before its first $: no dollar-quoted body is open
\* there, so a position is inside a single-quoted literal exactly when an odd
\* number of quotes precedes it (a doubled quote adds two).
BeforeDollars(s) == {i \in 1..Len(s) : \A j \in 1..i : s[j] # "$"}

\* C13: a semicolon inside a single-quoted literal is never a statement
\* boundary, a doubled quote inside a literal does not end it, and a
\* semicolon outside every literal is a boundary; INSERT INTO t VALUES
\* ('a;b'); yields exactly one statement, the inner semicolon kept.
C13_QuotedSemicolonNoBoundary ==
    SplitDone =>
        /\ \A i \in BeforeDollars(callArg) :
            i \in callRes.out.cuts <=>
                (callArg[i] = ";" /\ QuotesBefore(callArg, i - 1) % 2 = 0)
        /\ callArg = QuotedScript => callRes.out.statements = <<QuotedScript>>

\* The script of spec.md has been split; so has a text where a semicolon
\* follows a doubled quote inside a literal.
C13_Witness ==
    /\ SplitDone
    /\ callArg = QuotedScript
    /\ callRes.out.statements = <<QuotedScript>>

C13_WitnessDoubled ==
    /\ SplitDone
    /\ callArg = <<"'", "'", "'", ";", "'", ";">>
    /\ callRes.out.cuts = {6}

\* The text read token by token: a literal runs from a quote to the next
\* quote (a doubled quote closes one literal and opens the next), a body
\* from a tag to the next occurrence of that tag.  plain holds the positions
\* outside every literal and body, bodies the bodies (close is the position
\* of the closing tag, past the end of the text when there is none).
NextQuote(s, i) == Min({j \in i..Len(s) : s[j] = "'"} \cup {Len(s) + 1})

NextTag(s, tag, i) == Min({j \in i..Len(s) : StartsWith(s, tag, j)} \cup {Len(s) + 1})

RECURSIVE Lexed(_, _)
Lexed(s, i) ==
    IF i > Len(s) THEN [plain |-> {}, bodies |-> {}]
    ELSE IF s[i] = "'" THEN Lexed(s, NextQuote(s, i + 1) + 1)
    ELSE IF TagMatch(s, i) # <<>> THEN
        LET tag == TagMatch(s, i)
            close == NextTag(s, tag, i + Len(tag))
            rest == Lexed(s, close + Len(tag))
        IN  [rest EXCEPT !.bodies = @ \cup {[open |-> i, tag |-> tag, close |-> close]}]
    ELSE [Lexed(s, i + 1) EXCEPT !.plain = @ \cup {i}]

ClosedBodies(s) == {b \in Lexed(s, 1).bodies : b.close <= Len(s)}

\* The last character of the closing tag of a body.
BodyEnd(b) == b.close + Len(b.tag) - 1

Elements(seq) == {seq[i] : i \in DOMAIN seq}

\* The statement that holds body b is emitted as one statement that ends at
\* the first of the semicolons `semis`, when there is one.
OneStatementUpTo(b, semis) ==
    semis # {} =>
        LET r == Min(semis)
            lo == Max({c \in callRes.out.cuts : c < b.open} \cup {0})
        IN  /\ callRes.out.cuts \cap (lo + 1)..r = {r}
            /\ Trim(SubSeq(callArg, lo + 1, r)) \in Elements(callRes.out.statements)

\* C14 as stated: a body opened by a tag is closed only by the next
\* occurrence of that tag, no semicolon inside it is a boundary, and the
\* statement holding it is one statement that ends at the first semicolon
\* after the closing tag.
C14_EndsAtFirstSemicolon ==
    SplitDone =>
        \A b \in Lexed(callArg, 1).bodies :
            /\ callRes.out.cuts \cap b.open..BodyEnd(b) = {}
            /\ b \in ClosedBodies(callArg) => OneStatementUpTo(b, {j \in BodyEnd(b) + 1..Len(callArg) : callArg[j] = ";"})

\* C14, amended: ... that ends at the first semicolon after the closing tag
\* that lies outside every single-quoted literal and every later body.
C14_EndsAtFirstPlainSemicolon ==
    SplitDone =>
        \A b \in Lexed(callArg, 1).bodies :
            /\ callRes.out.cuts \cap b.open..BodyEnd(b) = {}
            /\ b \in ClosedBodies(callArg) => OneStatementUpTo(b, {j \in Lexed(callArg, 1).plain : j > BodyEnd(b) /\ callArg[j] = ";"})

\* The dollar-quoted script of spec.md has been split into one statement;
\* so has a script whose literal, after the body, holds a semicolon.
C14_Witness ==
    /\ SplitDone
    /\ callArg = DollarScript
    /\ ClosedBodies(callArg) # {}
    /\ callRes.out.statements = <<DollarScript>>

C14_WitnessLiteralAfterBody ==
    /\ SplitDone
    /\ callArg = MixedScript
    /\ ClosedBodies(callArg) # {}
    /\ callRes.out.statements = <<MixedScript>>

\* ----------------------------------------------------------- literal codec
\* The field read in one pass from left to right: a backslash followed by an
\* escape letter or by a backslash is the character denoted, every other
\* character is itself.
RECURSIVE OnePass(_)
OnePass(s) ==
    IF s = <<>> THEN <<>>
    ELSE IF Len(s) >= 2 /\ s[1] = Backslash /\ s[2] \in Elements(EscapeLetters)
    THEN <<Denotes(s[2])>> \o OnePass(SubSeq(s, 3, Len(s)))
    ELSE IF Len(s) >= 2 /\ s[1] = Backslash /\ s[2] = Backslash
    THEN <<Backslash>> \o OnePass(SubSeq(s, 3, Len(s)))
    ELSE <<Head(s)>> \o OnePass(Tail(s))

\* C15: a field decodes to null exactly when it is backslash-N; every other
\* field decodes to its one-pass reading, each one-backslash escape (t, n,
\* r, b, f, v, backslash) replaced by the character it denotes.
C15_DecodeOnePass ==
    callRes.fn = "decodeCopyValue" =>
        /\ callRes.out = JsNull <=> callArg.text = <<Backslash, "N">>
        /\ callRes.out # JsNull => callRes.out = Str(OnePass(callArg.text))

\* The null half of C15 alone.
C15_NullExactlyBackslashN ==
    callRes.fn = "decodeCopyValue" =>
        (callRes.out = JsNull <=> callArg.text = <<Backslash, "N">>)

\* A literal read back by the rules of SQL strings: the outer quotes
\* stripped, every doubled quote halved.
ReadBack(literal) ==
    ReplaceAll(SubSeq(literal, 2, Len(literal) - 1), <<"'", "'">>, <<"'">>)

\* Every quote between the outer quotes of the literal is one of a pair.
RECURSIVE QuotesPaired(_)
QuotesPaired(s) ==
    IF s = <<>> THEN TRUE
    ELSE IF Head(s) # "'" THEN QuotesPaired(Tail(s))
    ELSE Len(s) >= 2 /\ s[2] = "'" /\ QuotesPaired(SubSeq(s, 3, Len(s)))

Encoded == callRes.fn \in {"restore.toSqlLiteral", "backup.toSqlLiteral"}

\* C16: both encoders turn null and undefined into the unquoted text NULL
\* and a string into a single-quoted literal whose embedded quotes are all
\* doubled; read back by the rules of SQL strings the literal is the string.
C16_EncodeRoundTrip ==
    Encoded =>
        /\ callArg.type \in {"null", "undefined"} => callRes.out = NULL
        /\ callArg.type = "string" =>
            /\ Len(callRes.out) >= 2
            /\ Head(callRes.out) = "'"
            /\ callRes.out[Len(callRes.out)] = "'"
            /\ QuotesPaired(SubSeq(callRes.out, 2, Len(callRes.out) - 1))
            /\ ReadBack(callRes.out) = callArg.text

\* A string with an embedded quote has been encoded by the backup encoder;
\* null has been encoded by the restore encoder.
C16_Witness ==
    /\ callRes.fn = "backup.toSqlLiteral"
    /\ callArg = Str(<<"n", "'", "t">>)
    /\ callRes.out = <<"'", "n", "'", "'", "t", "'">>

C16_WitnessNull ==
    /\ callRes.fn = "restore.toSqlLiteral"
    /\ callArg = JsNull
    /\ callRes.out = NULL

\* --------------------------------------------------- upsert block generator
\* C17: the generated block applied twice to an empty table leaves what one
\* application leaves, and that is exactly the rows it was generated from.
C17_UpsertIdempotentAndExact ==
    callRes.fn = "appendTableUpsertBlock" =>
        /\ callRes.out.twice = callRes.out.once
        /\ callRes.out.once = Elements(callArg.rows)

\* The first half of C17 alone: a second application changes nothing.
C17_SecondApplicationNoOp ==
    callRes.fn = "appendTableUpsertBlock" => callRes.out.twice = callRes.out.once

\* C17 for rows whose values are strings, null and finite numbers, whose
\* target values differ and which have a column besides the target.
C17_ExactForPlainRows ==
    (/\ callRes.fn = "appendTableUpsertBlock"
     /\ Len(callArg.columns) > 1
     /\ \A i, j \in DOMAIN callArg.rows :
            i # j => callArg.rows[i][conflictTarget(callArg.columns)] # callArg.rows[j][conflictTarget(callArg.columns)]
     /\ \A i \in DOMAIN callArg.rows : \A c \in DOMAIN callArg.rows[i] :
            callArg.rows[i][c] \notin {JsObject, Num(<<"NaN">>)})
        => callRes.out.once = Elements(callArg.rows)

\* An order whose shipping address is an object has been through the block.
C17_ObjectRowAltered ==
    /\ callRes.fn = "appendTableUpsertBlock"
    /\ callArg.columns = <<"id", "v">>
    /\ Len(callArg.rows) = 1
    /\ callArg.rows[1]["v"] = JsObject
    /\ callRes.out.once # Elements(callArg.rows)

\* ------------------------------------------------------------ dump written
\* The runs whose pg_dump and whose three appends have succeeded.
Appended == {r \in RunSlots : runs[r].pc \in {"stat", "verify", "create", "returned"}}

UpsertIndexes(lines, tableName) ==
    {i \in 1 .. Len(lines) : lines[i].k = "upsert" /\ lines[i].t = tableName}

\* The file holds one marker of the table, it carries n, and the upsert
\* statements of the table are n and follow it.
MarkerAndUpserts(lines, tableName, n) ==
    /\ Cardinality(MarkerIndexes(lines, tableName)) = 1
    /\ \A m \in MarkerIndexes(lines, tableName) :
        /\ lines[m].n = n
        /\ \A i \in UpsertIndexes(lines, tableName) : i > m
    /\ Cardinality(UpsertIndexes(lines, tableName)) = n

\* C18: a dump file whose pg_dump and append step succeeded holds, for each
\* critical table, exactly one marker line, with N the number of rows
\* fetched for the table, followed by exactly N upsert statements.
C18_OneMarkerPerTable ==
    \A r \in Appended : \A t \in TableSet :
        MarkerAndUpserts(runs[r].file, t, runs[r].rows[t])

\* C18 for the tables of which at least one row was fetched.
C18_OneMarkerPerNonEmptyTable ==
    \A r \in Appended : \A t \in TableSet :
        runs[r].rows[t] > 0 => MarkerAndUpserts(runs[r].file, t, runs[r].rows[t])

\* A table of which no row was fetched has no marker in the file.
C18_EmptyTableUnmarked ==
    \E r \in Appended : \E t \in TableSet :
        runs[r].rows[t] = 0 /\ MarkerIndexes(runs[r].file, t) = {}

\* -------------------------------------------------------- dump transformer
\* The header of the block that is open when line i is reached, 0 for none:
\* a block opens at a header met outside a block and closes at the line
\* whose text, blanks aside, is backslash-dot.
RECURSIVE OpenAt(_, _)
OpenAt(lines, i) ==
    IF i = 1 THEN 0
    ELSE LET o == OpenAt(lines, i - 1)
         IN  IF o = 0 THEN IF lines[i - 1].k = "copy" THEN i - 1 ELSE 0
             ELSE IF Trim(lines[i - 1].text) = <<Backslash, ".">> THEN 0 ELSE o

BeginsWithBackslash(text) == text # <<>> /\ Head(text) = Backslash

FirstNonBlankIsBackslash(text) == BeginsWithBackslash(Trim(text))

Tabs(text) == Cardinality({j \in DOMAIN text : text[j] = "\t"})

\* What is known of an emitted line: for a statement its table, its column
\* list and the number of its literals; for any other line the line.
Shape(line) ==
    [k |-> line.k, table |-> line.table, columns |-> line.columns, text |-> line.text,
     n |-> Len(line.literals)]

\* The lines outside a block that are dropped: those that begin with a
\* backslash, after their leading blanks when trimmed is TRUE.
Dropped(text, trimmed) ==
    IF trimmed THEN FirstNonBlankIsBackslash(text) ELSE BeginsWithBackslash(text)

\* What line i contributes to the output.
Contribution(lines, i, trimmed) ==
    LET o == OpenAt(lines, i)
        line == lines[i]
    IN  IF o = 0
        THEN IF line.k = "copy" \/ Dropped(line.text, trimmed) THEN <<>> ELSE <<Shape(line)>>
        ELSE IF Trim(line.text) = <<Backslash, ".">> \/ line.text = <<>> THEN <<>>
        ELSE <<[k |-> "insert", table |-> lines[o].table, columns |-> lines[o].columns,
                text |-> <<>>, n |-> Tabs(line.text) + 1]>>

RECURSIVE Contributions(_, _, _)
Contributions(lines, i, trimmed) ==
    IF i > Len(lines) THEN <<>>
    ELSE Contribution(lines, i, trimmed) \o Contributions(lines, i + 1, trimmed)

Transformed == callRes.fn = "transformPlainSqlDump"

Shapes(lines) == [i \in DOMAIN lines |-> Shape(lines[i])]

C19_WitnessIndented ==
    /\ Transformed
    /\ callArg = <<TextLine(<<" ", Backslash, "c">>)>>
    /\ callRes.out = <<>>

\* ------------------------------------------------------------ backup files
\* The run has named its file and has not settled.
Writing(r) == InFlight(r) /\ runs[r].pc # "mkdir"

\* C20: two backup attempts that overlap in time and have the same target
\* directory never write their dump to the same file path.
C20_NoSharedFilePath ==
    \A r, q \in RunSlots :
        (r # q /\ Writing(r) /\ Writing(q) /\ runs[r].backupDir = runs[q].backupDir)
            => runs[r].filePath # runs[q].filePath

\* Two overlapping runs that read the clock in different seconds write to
\* different paths.
C20_DistinctSecondsDistinctPaths ==
    \A r, q \in RunSlots :
        (/\ r # q /\ Writing(r) /\ Writing(q)
         /\ runs[r].filePath.timestamp # runs[q].filePath.timestamp)
            => runs[r].filePath # runs[q].filePath

\* Two runs overlap, the clock has advanced between their readings of it,
\* and they write to the same path.
C20_SamePathLaterInstant ==
    /\ clock > 0
    /\ \E r, q \in RunSlots :
        /\ r # q /\ Writing(r) /\ Writing(q)
        /\ runs[r].pc = "fetch"
        /\ runs[r].filePath = runs[q].filePath

\* ----------------------------------------------------------- backup errors
\* The messages with which exec rejects when the shell finds no pg_dump:
\* the one of cmd.exe and the one of /bin/sh.
NotFoundErrors ==
    {e \in PgDumpErrors : e \in {"'pg_dump' is not recognized as an internal or external command",
                                 "/bin/sh: 1: pg_dump: not found"}}

NotFoundMessage == "pg_dump executable not found. Set PG_DUMP_PATH in your .env"

\* C21: a backup that fails because the pg_dump executable is not found,
\* whatever the platform's wording, raises the executable-not-found message;
\* a backup that fails for any other reason raises Database backup failed
\* (of the failures the catch block has recorded and re-raised).
C21_NotFoundMessageOnEveryPlatform ==
    \A r \in RunSlots :
        (runs[r].pc = "raised" /\ runs[r].recordId # 0) =>
            IF runs[r].pgError \in NotFoundErrors
            THEN runs[r].thrown[1] = NotFoundMessage
            ELSE runs[r].thrown[1] = "Database backup failed: "

\* C21 for the wording of cmd.exe alone, the failed record being written.
C21_WindowsWordingGetsHint ==
    \A r \in RunSlots :
        (/\ runs[r].pc = "raised" /\ runs[r].recordId # 0
         /\ runs[r].pgError = "'pg_dump' is not recognized as an internal or external command")
            => runs[r].thrown[1] = NotFoundMessage

\* /bin/sh has found no pg_dump and the generic message has been raised.
C21_ShellWordingGeneric ==
    \E r \in RunSlots :
        /\ runs[r].pc = "raised"
        /\ runs[r].pgError = "/bin/sh: 1: pg_dump: not found"
        /\ runs[r].thrown = <<"Database backup failed: ", "/bin/sh: 1: pg_dump: not found">>

\* The statement errors that no benign pattern of the restore matches.
Fatal(error) == ~isNonCriticalPsqlPermissionError(error)

\* One step of the fallback loop: it handles statements[idx] and nothing
\* else, and the database changes by that statement's execution or not at all.
HandlesNext ==
    /\ rs.idx <= Len(rs.statements)
    /\ rs'.idx = rs.idx + 1
    /\ rs'.statements = rs.statements
    /\ db' \in {db, Apply(db, rs.statements[rs.idx])}

\* The fallback ends the call: a failure response carrying the statement's
\* error, the cursor left on the failing statement, the database as the
\* statements before it left it.
StopsAt(error) ==
    /\ rs'.pc = "done"
    /\ rs'.response = [status |-> 500, error |-> error.phrases]
    /\ rs'.idx = rs.idx
    /\ rs'.executedStatements = rs.executedStatements
    /\ "repair" \notin {rs'.path[i] : i \in 1 .. Len(rs'.path)}
    /\ db' = db

\* C22: in fallback execution the statements are handled one at a time in
\* script order, and a statement error that matches no benign pattern stops
\* the execution: no later statement is executed, repair and verification do
\* not run, the call reports failure with that error, and what the earlier
\* statements wrote stays (nothing is rolled back, nothing runs after the end).
C22_FallbackStopsAtFirstFatalError ==
    [][/\ rs.pc = "fallback" =>
              /\ rs'.pc = "fallback" => HandlesNext
              /\ rs'.pc = "repair" => rs.idx > Len(rs.statements) /\ db' = db
              /\ rs'.pc = "done" => StopsAt(rs'.lastError)
              /\ rs'.pc \in {"fallback", "repair", "done"}
              /\ (rs'.lastError \notin {rs.lastError, NoError} /\ Fatal(rs'.lastError))
                    => rs'.pc = "done"
       /\ rs.pc = "done" => rs' = rs /\ db' = db]_vars

\* The fallback has failed on a later statement after executing earlier ones,
\* whose rows are still in the database.
C22_Witness ==
    /\ rs.pc = "done"
    /\ rs.path = <<"reset", "psql", "reset", "fallback">>
    /\ rs.lastError # NoError /\ Fatal(rs.lastError)
    /\ rs.response = [status |-> 500, error |-> rs.lastError.phrases]
    /\ rs.executedStatements > 0
    /\ rs.idx <= Len(rs.statements)
    /\ \E t \in TableSet : db.rows[t] # {}

\* The statement's text, trimmed, its whitespace normalised and upper-cased,
\* starts with ALTER DEFAULT PRIVILEGES or COMMENT ON EXTENSION: it is such a
\* statement and no comment line precedes it in its text.
StartsInert(statement) == statement.k = "inert" /\ ~statement.lead

\* This step of the fallback loop passed the statement over without a query.
NotSent ==
    /\ rs'.pc = "fallback"
    /\ rs'.skippedStatements = rs.skippedStatements + 1
    /\ rs'.executedStatements = rs.executedStatements
    /\ rs'.passedOver = rs.passedOver
    /\ rs'.lastError = rs.lastError
    /\ db' = db

\* This step of the fallback loop sent the statement to the database: the
\* query wrote what the statement writes, or it raised an error.
Sent(statement) ==
    \/ /\ rs'.executedStatements = rs.executedStatements + 1
       /\ rs'.skippedStatements = rs.skippedStatements
       /\ db' = Apply(db, statement)
    \/ /\ rs'.passedOver = rs.passedOver + 1 /\ rs'.lastError # NoError
    \/ /\ rs'.pc = "done" /\ rs'.lastError # NoError

\* C23: in fallback execution a statement whose normalised text starts with
\* one of the two inert patterns is never sent to the database, and every
\* other statement of the script is sent, in script order, until the script
\* ends or a statement aborts the restore.
C23_InertSkippedOthersSent ==
    [][(rs.pc = "fallback" /\ rs.idx <= Len(rs.statements)) =>
          /\ IF StartsInert(rs.statements[rs.idx]) THEN NotSent
                                                   ELSE Sent(rs.statements[rs.idx])
          /\ rs'.pc = "fallback" => rs'.idx = rs.idx + 1 /\ rs'.statements = rs.statements
          /\ rs'.pc = "repair" => FALSE]_vars

\* The loop is past an inert statement that it skipped and past another
\* statement that it executed.
C23_Witness ==
    /\ rs.pc = "fallback"
    /\ \E i, j \in 1 .. (rs.idx - 1) :
          /\ StartsInert(rs.statements[i])
          /\ ~StartsInert(rs.statements[j]) /\ rs.statements[j].k = "inert"
    /\ rs.skippedStatements > 0 /\ rs.executedStatements > 0 /\ rs.passedOver = 0

\* The call has not yet passed its scans of the uploaded file.
BeforeScans == rs.pc \in {"idle", "prescan"}

\* The baseline a scan of the uploaded file gives for the table: the number
\* of its rows in the file, or none when the file cannot be read.
Baselines(t) ==
    {Null, IF t = "users" THEN RestoreCountUsersRowsInSql(rs.file)
                         ELSE RestoreCountTableRowsInSql(rs.file, t)}

\* The response of a restore that ran to its end reports the baseline the call
\* holds and compares the live counts with it.
ReportsBaseline ==
    /\ "expected" \in DOMAIN rs.response =>
          /\ rs.response.expected = rs.expected
          /\ rs.response.warning =
                {t \in TableSet : rs.expected[t] # Null /\ rs.response.counts[t] < rs.expected[t]}
    /\ "expectedUsersFromBackup" \in DOMAIN rs.response =>
          rs.response.expectedUsersFromBackup = rs.expected["users"]

\* C24: the expected counts of users, orders and order_items are read from
\* the uploaded file before the first schema reset, and are never recomputed:
\* the baseline compared and reported at the end is the one captured before
\* the restore changed the database.
C24_BaselineBeforeReset ==
    [][/\ BeforeScans => db' = db /\ rs'.path = <<>>
       /\ ~BeforeScans => rs'.expected = rs.expected /\ rs'.file = rs.file
       /\ rs.pc = "prescan" => \A t \in TableSet : rs'.expected[t] \in Baselines(t)
       /\ (rs'.pc = "done" /\ rs'.response.status = 200) => ReportsBaseline']_vars

\* A restore has ended with a response that reports a baseline of several
\* rows while the restored database holds other counts.
C24_Witness ==
    /\ rs.pc = "done" /\ rs.response.status = 200
    /\ "expected" \in DOMAIN rs.response
    /\ rs.response.expected = rs.expected
    /\ \A t \in TableSet : rs.expected[t] # Null /\ rs.expected[t] > 1
    /\ rs.response.counts # rs.expected
    /\ rs.path # <<>>

\* C25: if the schema reset that opens the restore fails, the restore ends in
\* failure before any data is touched: the database is as the request found
\* it, neither psql nor the fallback executor nor the repair has run, and the
\* error is reported to the caller; nothing happens after that.
C25_InitialResetFailureEndsRestore ==
    [][/\ rs.pc = "reset" =>
              \/ /\ rs'.pc = "psql"
                 /\ rs'.path = <<"reset">>
              \/ /\ rs'.pc = "done"
                 /\ rs'.response = [status |-> 500, error |-> "schema reset failed"]
                 /\ rs'.path = <<>>
                 /\ rs'.restoreMethod = "" /\ rs'.statements = <<>>
                 /\ rs'.executedStatements = 0 /\ rs'.skippedStatements = 0
                 /\ db' = db
       /\ (rs.path = <<>> /\ rs'.path = <<>>) => db' = db
       /\ rs.pc = "done" => rs' = rs /\ db' = db]_vars

\* The first schema reset has failed: the call has ended with the error and
\* the database still holds the rows it held at the request.
C25_Witness ==
    /\ rs.pc = "done"
    /\ rs.response = [status |-> 500, error |-> "schema reset failed"]
    /\ rs.path = <<>>
    /\ rs.file # <<>>
    /\ \A t \in TableSet : db.rows[t] # {}

\* The fallback ended the restore on the latest error a statement raised.
FatalInFallback ==
    /\ rs.pc = "done"
    /\ rs.lastError # NoError
    /\ rs.idx <= Len(rs.statements)
    /\ rs.response = [status |-> 500, error |-> rs.lastError.phrases]

\* C26: an error that a statement raises in fallback execution is classed
\* benign (skipped, the restore goes on) exactly when the classification of
\* native-tool failures classes its text benign, the text `role ... does not
\* exist` included.
C26_SameBenignClass ==
    rs.lastError # NoError =>
        (~FatalInFallback <=> isNonCriticalPsqlPermissionError(rs.lastError))

\* On the two permission patterns the two classifications agree, and what
\* the native classification takes for fatal is fatal in the fallback.
C26_AgreeOnPermissionPatterns ==
    (rs.lastError # NoError
        /\ ~("role" \in rs.lastError.phrases /\ "does not exist" \in rs.lastError.phrases)) =>
        (~FatalInFallback <=> isNonCriticalPsqlPermissionError(rs.lastError))

\* The fallback has ended the restore on a `role ... does not exist` error,
\* which the native classification takes for benign.
C26_RoleMissingFatalInFallback ==
    /\ FatalInFallback
    /\ rs.lastError.phrases = {"role", "does not exist"}
    /\ isNonCriticalPsqlPermissionError(rs.lastError)

\* Of the first n statements, those whose normalised text starts with an
\* inert pattern.
InertAmong(statements, n) ==
    Cardinality({i \in 1 .. n : StartsInert(statements[i])})

\* The restore took the fallback executor.
OnFallbackPath == "fallback" \in {rs.path[i] : i \in 1 .. Len(rs.path)}

\* C27: in fallback execution executedStatements + skippedStatements is the
\* number of statements handled so far; after a complete run the sum is the
\* number of statements the splitter produced, and skippedStatements is the
\* number of inert-pattern statements plus the number of statements whose
\* execution raised a benign error.  The skippedStatements of the restore
\* response is this number on a fallback path and 0 on the native and
\* tolerant paths.
C27_SkipAccounting ==
    /\ (rs.pc = "fallback" \/ FatalInFallback) =>
          /\ rs.executedStatements + rs.skippedStatements = rs.idx - 1
          /\ rs.skippedStatements = InertAmong(rs.statements, rs.idx - 1) + rs.passedOver
    /\ (rs.pc = "repair" /\ OnFallbackPath) =>
          rs.statements = splitSqlStatements(transformPlainSqlDump(rs.file))
    /\ rs.fallbackStats # <<>> =>
          /\ OnFallbackPath
          /\ rs.fallbackStats[1] + rs.fallbackStats[2] = Len(rs.statements)
          /\ rs.fallbackStats[2] = InertAmong(rs.statements, Len(rs.statements)) + rs.passedOver
    /\ (rs.pc \in {"repair", "verify"} /\ OnFallbackPath) => rs.fallbackStats # <<>>
    /\ (rs.pc = "done" /\ rs.response.status = 200
           /\ "skippedStatements" \in DOMAIN rs.response) =>
          rs.response.skippedStatements =
             IF OnFallbackPath THEN rs.fallbackStats[2] ELSE 0

\* A fallback restore has ended with a response whose skippedStatements
\* counts an inert statement and a statement that raised a benign error.
C27_Witness ==
    /\ rs.pc = "done" /\ rs.response.status = 200
    /\ "skippedStatements" \in DOMAIN rs.response
    /\ OnFallbackPath
    /\ rs.passedOver = 1
    /\ InertAmong(rs.statements, Len(rs.statements)) = 1
    /\ rs.response.skippedStatements = 2
    /\ rs.fallbackStats[1] > 0

\* A native restore has passed over a failing statement in its tolerant run
\* and has ended with skippedStatements 0.
C27_WitnessTolerant ==
    /\ rs.pc = "done" /\ rs.response.status = 200
    /\ "skippedStatements" \in DOMAIN rs.response
    /\ rs.path = <<"reset", "psql", "tolerant">>
    /\ rs.passedOver = 1
    /\ rs.response.skippedStatements = 0

\* The step persisted one record of this status for run r, and nothing else
\* changed in the table.
Persists(r, status) ==
    /\ Len(backups') = Len(backups) + 1
    /\ \A i \in 1 .. Len(backups) : backups'[i] = backups[i]
    /\ backups'[Len(backups')].status = status
    /\ runs'[r].recordId = Len(backups')

\* Run r ends in this step.
Ends(r, pc) == runs[r].pc \notin {"returned", "raised"} /\ runs'[r].pc = pc

\* Each attempt persists at most one record, in the step that ends it: a
\* completed one and no other when it returns, a failed one or none when it
\* raises; a failed creation of the completed record persists nothing.
AtMostOneRecord ==
    /\ backups' # backups =>
          \E r \in RunSlots : Ends(r, "returned") \/ Ends(r, "raised")
    /\ \A r \in RunSlots :
          /\ Ends(r, "returned") => Persists(r, "completed")
          /\ Ends(r, "raised") => (backups' = backups \/ Persists(r, "failed"))
          /\ (runs[r].pc = "create" /\ runs'[r].pc = "catch") => backups' = backups

\* C28: each backup attempt persists at most one record.  A call that
\* returns has persisted exactly one completed record and no failed one; a
\* call that raises has persisted no completed record; and if the creation of
\* the completed record fails, a failed record is written instead.
C28_OneRecordPerAttempt ==
    [][/\ AtMostOneRecord
       /\ \A r \in RunSlots :
             (Ends(r, "raised") /\ runs[r].pgError = "insert failed") =>
                 Persists(r, "failed")]_vars

\* The claim without its last clause.
C28_AtMostOneRecordPerAttempt == [][AtMostOneRecord]_vars

\* A run wrote its file and passed verification, the creation of its completed
\* record failed, and the creation of the failed record failed as well: the
\* call has raised and the table holds no record of the attempt.
C28_NoRecordAfterTwoFailedInserts ==
    \E r \in RunSlots :
        /\ runs[r].pc = "raised"
        /\ runs[r].pgError = "insert failed"
        /\ runs[r].thrown = <<"insert failed", "">>
        /\ runs[r].recordId = 0
        /\ backups = <<>>

\* A trigger of runJob in this step.
Triggered == lastJob'.flip # lastJob.flip

\* C29: the in-flight flag is cleared in the step that ends an automated
\* run, returned or raised, and it is set only while such a run is in flight;
\* no step disarms the timer; a trigger that finds no automated run in flight
\* starts a new run; and when every run terminates, a flag that is set is
\* eventually cleared.
C29_FlagClearedWhenRunEnds ==
    /\ [][\A r \in RunSlots :
             (runs[r].by = "auto" /\ (Ends(r, "returned") \/ Ends(r, "raised")))
                 => ~isAutoBackupRunning']_vars
    /\ [](isAutoBackupRunning => AutoInFlight # {})
    /\ [][autoBackupTimer => autoBackupTimer']_vars
    /\ [][(Triggered /\ AutoInFlight = {}) =>
             /\ lastJob'.what = "started"
             /\ AutoInFlight' # {} /\ isAutoBackupRunning']_vars
    /\ (isAutoBackupRunning ~> ~isAutoBackupRunning)

\* An automated run has ended in failure, the timer is armed and the flag is
\* clear.
C29_Witness ==
    /\ autoBackupTimer
    /\ ~isAutoBackupRunning
    /\ \E r \in RunSlots :
          /\ runs[r].by = "auto" /\ runs[r].pc = "raised"
          /\ runs[r].recordId # 0 /\ backups[runs[r].recordId].status = "failed"

\* The first position from pos on that holds no whitespace; past the end of
\* the text when there is none.
RECURSIVE SkipWhitespace(_, _)
SkipWhitespace(s, pos) ==
    IF pos > Len(s) \/ s[pos] \notin Whitespace THEN pos
    ELSE SkipWhitespace(s, pos + 1)

\* The text from pos on is the statements from the k-th on, in their order,
\* with nothing but whitespace before, between and after them.
RECURSIVE Reassembles(_, _, _, _)
Reassembles(s, pos, statements, k) ==
    LET from == SkipWhitespace(s, pos) IN
    IF k > Len(statements) THEN from > Len(s)
    ELSE /\ from + Len(statements[k]) - 1 <= Len(s)
         /\ SubSeq(s, from, from + Len(statements[k]) - 1) = statements[k]
         /\ Reassembles(s, from + Len(statements[k]), statements, k + 1)

\* The text left after the last boundary holds a character that is not
\* whitespace.
TrailingText(s, cuts) ==
    \E i \in 1 .. Len(s) : s[i] \notin Whitespace /\ \A c \in cuts : c < i

\* C30: the statements the splitter returns are trimmed and non-empty; every
\* one but possibly the last ends with a semicolon; there is one for every
\* boundary and, last, one for the text after the last boundary when that
\* holds more than whitespace; and in their order they are the input with
\* only the whitespace before, between and after them removed.
C30_SplitLosslessOrdered ==
    SplitDone =>
        LET statements == callRes.out.statements
            cuts == callRes.out.cuts
        IN  /\ \A k \in 1 .. Len(statements) :
                  /\ statements[k] # <<>>
                  /\ statements[k][1] \notin Whitespace
                  /\ statements[k][Len(statements[k])] \notin Whitespace
            /\ \A k \in 1 .. (Len(statements) - 1) :
                  statements[k][Len(statements[k])] = ";"
            /\ Len(statements) =
                  Cardinality(cuts) + (IF TrailingText(callArg, cuts) THEN 1 ELSE 0)
            /\ TrailingText(callArg, cuts) =>
                  statements[Len(statements)] =
                      Trim(SubSeq(callArg, Max(cuts \cup {0}) + 1, Len(callArg)))
            /\ Reassembles(callArg, 1, statements, 1)

\* A text was split into a statement that ends at its semicolon and a last
\* statement without one, the blanks around the boundary removed.
C30_Witness ==
    /\ SplitDone
    /\ Len(callRes.out.statements) = 2
    /\ callRes.out.statements[2] = <<"a">>
    /\ callRes.out.statements[1] = <<"a", ";">>
    /\ Len(callArg) > 3

====
